---- MODULE Spec2Model ----
(***************************************************************************)
(* Delayed-frame clone compositing engine of clone-recorder:               *)
(* CloneManager (frame buffer, clone animation state machine, pending      *)
(* particle bursts) and the parts of EffectRenderer / CloneRecorderApp     *)
(* that drive it.                                                          *)
(*                                                                         *)
(* Representation.                                                         *)
(*  - A frame snapshot is the ordinal of its push since the buffer was     *)
(*    last emptied (1, 2, ...); NoFrame stands for JavaScript null.        *)
(*  - Times are whole milliseconds.                                        *)
(*  - animationProgress is kept exactly, in units of 1/ProgressOne, so     *)
(*    that deltaTime/1000 and deltaTime/800 are both whole numbers.        *)
(*  - A clone's id is 0-based as in the code; sequences are 1-based.       *)
(*  - Clone positions are whole pixels; the canvas drawing state is the   *)
(*    part of it render touches (alpha, clip, transform, save stack).      *)
(*  - The particle system is modelled on its own (SpecParticles, SpecCap); *)
(*    a particle's life is the exact binary64 value.                       *)
(*  - Start-up and the adaptive settings (PerformanceManager) are in      *)
(*    SpecApp, a renderer with a segmentation manager in SpecSeg, the      *)
(*    application with its particle system in SpecDestroy, placement on    *)
(*    crowded rings in SpecPlacement.                                      *)
(*  - The collaborators have their own specifications: GestureDetector     *)
(*    in SpecClassify (all finger states) and SpecGesture (hold and        *)
(*    cooldown), the two SegmentationManager classes in SpecInference      *)
(*    (SpecInferenceFair: every inference completes), VideoRecorder in     *)
(*    SpecRecorder.  SpecOverride is the clone-count control after         *)
(*    start-up, SpecDrain one batch dismissed under ticks that keep        *)
(*    arriving.                                                            *)
(***************************************************************************)
EXTENDS Integers, Sequences, FiniteSets, TLC

VARIABLES
    frameBuffer,        \* CloneManager.frameBuffer: snapshots, oldest first
    pushed,             \* number of addFrame calls since the buffer was last empty
    lastGet,            \* the most recent getDelayedFrame call: [delay, frame]
    clones,             \* CloneManager.clones
    isActive,           \* CloneManager.isActive
    particlePositions,  \* CloneManager.particlePositions: bursts waiting for emit
    emitted,            \* bursts this operation handed to ParticleSystem.emit
    drawn,              \* what drawClones did in this operation, one entry per clone
    lastOp,             \* history: the operation that produced this state
    cmd,                \* history: the last spawn / dismiss command
    elapsed,            \* history: sum of tick deltaTime since cmd (saturating)
    fixedDt,            \* the deltaTime of every tick of a fixed-rate run
    maxClones,          \* CloneManager.maxClones
    cloneCountOverride, \* CloneRecorderApp.settings.cloneCountOverride (0 = auto)
    particles,          \* ParticleSystem.particles, oldest first
    emitCalls,          \* history: number of ParticleSystem.emit calls so far
    ctx,                \* EffectRenderer.ctx: the drawing state of the canvas
    trace,              \* history: the steps of this render, in execution order
    replaced,           \* history: how many clones this operation's
                        \* `this.clones = []` discarded (spawnClones only)
    iterations,         \* history: resolveCollisions' `iteration` at its return
    videoWidth,         \* videoElement.videoWidth as this render read it
    threw,              \* this operation ended by an exception leaving it
    useSegmentation,    \* CloneManager.useSegmentation
    frameBufferScale,   \* CloneManager.frameBufferScale, in hundredths
    segmentationManager,\* EffectRenderer.segmentationManager was supplied
    performanceTier,    \* PerformanceManager.performanceTier
    settings,           \* PerformanceManager.settings
    isInitialized,      \* CloneRecorderApp.isInitialized
    now,                \* Date.now(), in ms
    lastGestureTime,    \* GestureDetector.lastGestureTime
    currentGestureStart,\* GestureDetector.currentGestureStart (NoStart = null)
    currentGestureType, \* GestureDetector.currentGestureType ("null" = null)
    gesture,            \* the last hand-tracking result, what detectGesture
                        \* made of it and what the callback was called with
    held,               \* history: the gesture of the current run of
                        \* consecutive results and the time of its first
    firedAt,            \* history: the times of the gesture callbacks
    segManager,         \* SegmentationManager: which implementation, enabled,
                        \* and whether its model is loaded
    frameCount,         \* SegmentationManager.frameCount
    isProcessing,       \* SegmentationManager.isProcessing
    segmentationMask,   \* SegmentationManager.segmentationMask is not null
    inFlight,           \* inferences started and not yet completed
    startedAt,          \* history: frameCount when the last inference started
    mediaRecorder,      \* VideoRecorder.mediaRecorder: the number of the
                        \* MediaRecorder it holds (0 = null)
    recorders,          \* every MediaRecorder created so far: its state and
                        \* how often its stop() was invoked
    recordedChunks,     \* VideoRecorder.recordedChunks, by recorder number
    isRecording,        \* VideoRecorder.isRecording
    timers,             \* the setInterval timers of startDurationTimer not
                        \* yet cleared, each named by the recording it was
                        \* started for
    reported            \* history: the last onTimeUpdate: which timer, and
                        \* for which recording

vars == <<frameBuffer, pushed, lastGet, clones, isActive, particlePositions,
          emitted, drawn, lastOp, cmd, elapsed, fixedDt,
          maxClones, cloneCountOverride, particles, emitCalls, ctx, trace,
          replaced, iterations, videoWidth, threw, useSegmentation, frameBufferScale,
          segmentationManager, performanceTier, settings, isInitialized,
          now, lastGestureTime, currentGestureStart, currentGestureType,
          gesture, held, firedAt, segManager, frameCount, isProcessing,
          segmentationMask, inFlight, startedAt, mediaRecorder, recorders,
          recordedChunks, isRecording, timers, reported>>

bufferVars == <<frameBuffer, pushed>>
cloneVars  == <<clones, isActive, particlePositions>>
histVars   == <<cmd, elapsed, fixedDt>>
pipelineVars == <<useSegmentation, frameBufferScale, segmentationManager>>
perfVars   == <<performanceTier, settings, isInitialized>>
appVars    == <<maxClones, cloneCountOverride, pipelineVars, perfVars>>
gestureVars == <<now, lastGestureTime, currentGestureStart, currentGestureType,
                 gesture, held, firedAt>>
segVars    == <<segManager, frameCount, isProcessing, segmentationMask,
                inFlight, startedAt>>
recVars    == <<mediaRecorder, recorders, recordedChunks, isRecording,
                timers, reported>>
collabVars == <<gestureVars, segVars, recVars>>
settingsVars == <<appVars, collabVars>>
particleVars == <<particles, emitCalls>>

----------------------------------------------------------------------------
(* Program constants *)

frameBufferSize == 30
cloneDelay == 10
StaggerInterval == 300
SpawnDuration == 1000
DismissDuration == 800

(* Bounds of the model *)

MaxPushed == 34
MaxFrames == 12
MaxCount == 3
MaxDelay == 33
MaxElapsed == 2000
MaxNow == 4000
MaxRecordings == 2
MaxChunks == 2
MaxStopCalls == 3
MaxEmits == 2

DeltaTimes == {0, 400, 700, 1500}
FixedDeltaTimes == {100, 250, 300, 700}

----------------------------------------------------------------------------
(* Helpers *)

NoFrame == 0

Max(a, b) == IF a >= b THEN a ELSE b
Min(a, b) == IF a <= b THEN a ELSE b

Range(s) == {s[i] : i \in 1..Len(s)}

(* An operation that neither draws a clone nor emits a burst. *)
NoOutput ==
    /\ emitted' = <<>> /\ drawn' = <<>> /\ trace' = <<>> /\ replaced' = 0
    /\ videoWidth' = 0 /\ threw' = FALSE /\ iterations' = 0

(* One whole animation, in progress units: 4000 = lcm(1000, 800). *)
ProgressOne == 4 * SpawnDuration

----------------------------------------------------------------------------
(* CloneManager.addFrame: push, then drop the oldest when over capacity. *)

PushFrameNoEvict(buf, f) == Append(buf, f)

PushFrame(buf, f) ==
    LET b == Append(buf, f)
    IN  IF Len(b) > frameBufferSize THEN Tail(b) ELSE b

(* CloneManager.getDelayedFrame:
     index = Math.max(0, length - delay); return frameBuffer[index] || null *)

getDelayedFrameNoClamp(buf, delay) ==
    LET index == Len(buf) - delay
    IN  IF index >= 0 /\ index < Len(buf) THEN buf[index + 1] ELSE NoFrame

getDelayedFrame(buf, delay) ==
    LET index == Max(0, Len(buf) - delay)
    IN  IF index < Len(buf) THEN buf[index + 1] ELSE NoFrame

----------------------------------------------------------------------------
(* Initial state: CloneManager's constructor. *)

(* A new 2D context: opaque, unclipped, untransformed, nothing saved. *)
CtxInit ==
    [globalAlpha |-> ProgressOne, clip |-> "none", transform |-> "identity",
     stack |-> <<>>]

(* PerformanceManager.applyHighSettings, also the constructor's settings;
   frameBufferScale in hundredths. *)
HighSettings ==
    [maxClones |-> 7, segmentationEnabled |-> TRUE,
     segmentationResolution |-> 256, smokeEffectsEnabled |-> TRUE,
     frameBufferScale |-> 100]

(* PerformanceManager.applyMediumSettings *)
MediumSettings ==
    [maxClones |-> 3, segmentationEnabled |-> TRUE,
     segmentationResolution |-> 144, smokeEffectsEnabled |-> TRUE,
     frameBufferScale |-> 75]

(* PerformanceManager.applyLowEndSettings *)
LowEndSettings ==
    [maxClones |-> 1, segmentationEnabled |-> TRUE,
     segmentationResolution |-> 128, smokeEffectsEnabled |-> FALSE,
     frameBufferScale |-> 50]

NoCmd == [kind |-> "none", count |-> 0, stagger |-> <<>>, from |-> <<>>]

(* SegmentationManager.frameSkip *)
frameSkip == 2

(* GestureDetector: holdDuration, cooldownDuration (constructor). *)
holdDuration == 500
cooldownDuration == 2000

(* currentGestureStart = null *)
NoStart == -1

(* Date.now() when the page starts: far above cooldownDuration, so that
   the first gesture is not inside a cooldown (lastGestureTime starts 0). *)
StartTime == 10000

(* getFingerStates: one boolean per finger, true for an extended finger. *)
FingerStates ==
    [thumb : BOOLEAN, index : BOOLEAN, middle : BOOLEAN,
     ring : BOOLEAN, pinky : BOOLEAN]

AllDown == [thumb |-> FALSE, index |-> FALSE, middle |-> FALSE,
            ring |-> FALSE, pinky |-> FALSE]

(* A result without multiHandLandmarks; also the state before any result. *)
NoHand == [hand |-> FALSE, fingers |-> AllDown]

NoResult == [hand |-> FALSE, fingers |-> AllDown, type |-> "null",
             fired |-> "null"]

InitBase ==
    /\ frameBuffer = <<>>
    /\ pushed = 0
    /\ lastGet = [delay |-> 0, frame |-> NoFrame]
    /\ clones = <<>>
    /\ isActive = FALSE
    /\ particlePositions = <<>>
    /\ emitted = <<>>
    /\ drawn = <<>>
    /\ lastOp = "init"
    /\ cmd = NoCmd
    /\ elapsed = 0
    /\ maxClones = 5
    /\ cloneCountOverride = 0
    /\ particles = <<>>
    /\ emitCalls = 0
    /\ ctx = CtxInit
    /\ trace = <<>>
    /\ replaced = 0
    /\ videoWidth = 0
    /\ threw = FALSE
    /\ iterations = 0
    /\ useSegmentation = FALSE
    /\ frameBufferScale = 100
    /\ segmentationManager = FALSE
    /\ performanceTier = "high"
    /\ settings = HighSettings
    /\ isInitialized = FALSE
    /\ now = StartTime
    /\ lastGestureTime = 0
    /\ currentGestureStart = NoStart
    /\ currentGestureType = "null"
    /\ gesture = NoResult
    /\ held = [type |-> "null", since |-> NoStart]
    /\ firedAt = <<>>
    /\ segManager = [kind |-> "bodypix", enabled |-> TRUE, ready |-> FALSE]
    /\ frameCount = 0
    /\ isProcessing = FALSE
    /\ segmentationMask = FALSE
    /\ inFlight = 0
    /\ startedAt = 0
    /\ mediaRecorder = 0
    /\ recorders = <<>>
    /\ recordedChunks = <<>>
    /\ isRecording = FALSE
    /\ timers = {}
    /\ reported = [timer |-> 0, recording |-> 0]

Init == InitBase /\ fixedDt = 0

----------------------------------------------------------------------------
(* Frame buffer operations *)

AddFrame(limit) ==
    /\ pushed < limit
    /\ frameBuffer' = PushFrame(frameBuffer, pushed + 1)
    /\ pushed' = pushed + 1
    /\ lastOp' = "addFrame"
    /\ NoOutput
    /\ UNCHANGED <<lastGet, cloneVars, histVars, settingsVars, particleVars, ctx>>

GetDelayedFrame(delay) ==
    /\ lastGet' = [delay |-> delay, frame |-> getDelayedFrame(frameBuffer, delay)]
    /\ lastOp' = "get"
    /\ NoOutput
    /\ UNCHANGED <<bufferVars, cloneVars, histVars, settingsVars, particleVars, ctx>>

NextBuffer ==
    \/ AddFrame(MaxPushed)
    \/ \E d \in 0..MaxDelay : GetDelayedFrame(d)

SpecBuffer == Init /\ [][NextBuffer]_vars

----------------------------------------------------------------------------
(* Clone placement: calculateCircularPositions and resolveCollisions.
   Coordinates are whole pixels.  Math.cos / Math.sin of i * 2*pi / count are
   tabulated in thousandths for rings of 1 to 8 clones. *)

radius == 150
minDistance == 80
maxIterations == 10
TrigOne == 1000

CosTable ==
    <<
       <<1000>>,
       <<1000, -1000>>,
       <<1000, -500, -500>>,
       <<1000, 0, -1000, 0>>,
       <<1000, 309, -809, -809, 309>>,
       <<1000, 500, -500, -1000, -500, 500>>,
       <<1000, 623, -223, -901, -901, -223, 623>>,
       <<1000, 707, 0, -707, -1000, -707, 0, 707>>,
       <<1000, 766, 174, -500, -940, -940, -500, 174, 766>>,
       <<1000, 809, 309, -309, -809, -1000, -809, -309, 309, 809>>,
       <<1000, 841, 415, -142, -655, -959, -959, -655, -142, 415, 841>>,
       <<1000, 866, 500, 0, -500, -866, -1000, -866, -500, 0, 500, 866>>,
       <<1000, 885, 568, 121, -355, -749, -971, -971, -749, -355, 121, 568, 885>>
    >>

SinTable ==
    <<
       <<0>>,
       <<0, 0>>,
       <<0, 866, -866>>,
       <<0, 1000, 0, -1000>>,
       <<0, 951, 588, -588, -951>>,
       <<0, 866, 866, 0, -866, -866>>,
       <<0, 782, 975, 434, -434, -975, -782>>,
       <<0, 707, 1000, 707, 0, -707, -1000, -707>>,
       <<0, 643, 985, 866, 342, -342, -866, -985, -643>>,
       <<0, 588, 951, 951, 588, 0, -588, -951, -951, -588>>,
       <<0, 541, 910, 990, 756, 282, -282, -756, -990, -910, -541>>,
       <<0, 500, 866, 1000, 866, 500, 0, -500, -866, -1000, -866, -500>>,
       <<0, 465, 823, 993, 935, 663, 239, -239, -663, -935, -993, -823, -465>>
    >>

(* (Math.random() - 0.5) * 40 lies in [-20, 20): the extremes and the middle. *)
RandomOffsets == {-20, 0, 19}

(* The random offsets of one call, one per ring index: no offset at all,
   or the two extremes in alternation. *)
NoJitter(count) == [i \in 0..(count - 1) |-> 0]

AlternatingJitter(count) ==
    [i \in 0..(count - 1) |-> IF i % 2 = 0 THEN -20 ELSE 19]

(* The two first offsets at the inner extreme, the others at the outer. *)
InnerPairJitter(count) ==
    [i \in 0..(count - 1) |-> IF i < 2 THEN -20 ELSE 19]

(* Every offset at the inner extreme. *)
InnerJitter(count) == [i \in 0..(count - 1) |-> -20]

Jitters(count) == {NoJitter(count), AlternatingJitter(count)}

(* The centre handed to spawnClones: canvas.width / 2, canvas.height / 2. *)
Centers == { [x |-> 640, y |-> 360] }

RingPosition(center, count, i, offset) ==
    LET adjustedRadius == radius + offset
    IN  [x |-> center.x + (adjustedRadius * CosTable[count][i + 1]) \div TrigOne,
         y |-> center.y + (adjustedRadius * SinTable[count][i + 1]) \div TrigOne]

Dist2(p, q) == (p.x - q.x) * (p.x - q.x) + (p.y - q.y) * (p.y - q.y)

ISqrt(n) ==
    CHOOSE r \in 0..Min(n, minDistance) : r * r <= n /\ n < (r + 1) * (r + 1)

CollidesNever(p, q) == FALSE

Collides(p, q) == Dist2(p, q) < minDistance * minDistance

(* The push applied to positions[i] for the colliding pair (i, j); the one
   applied to positions[j] is its negative.  atan2(0, 0) is 0. *)
Push(p, q) ==
    LET distance == ISqrt(Dist2(p, q))
        pushDistance2 == minDistance - distance
    IN  IF distance = 0
        THEN [x |-> pushDistance2 \div 2, y |-> 0]
        ELSE [x |-> ((p.x - q.x) * pushDistance2) \div (2 * distance),
              y |-> ((p.y - q.y) * pushDistance2) \div (2 * distance)]

(* The pairs (i, j), i < j, in the order of the two nested loops. *)
RECURSIVE PairsFrom(_, _, _)
PairsFrom(i, j, n) ==
    IF i >= n THEN <<>>
    ELSE IF j > n THEN PairsFrom(i + 1, i + 2, n)
    ELSE <<(<<i, j>>)>> \o PairsFrom(i, j + 1, n)

(* One pass of the while body over the remaining pairs, in place. *)
RECURSIVE PushPairs(_, _)
PushPairs(positions, pairs) ==
    IF pairs = <<>> THEN positions
    ELSE LET i == Head(pairs)[1]
             j == Head(pairs)[2]
             d == Push(positions[i], positions[j])
             moved == [positions EXCEPT
                          ![i] = [x |-> @.x + d.x, y |-> @.y + d.y],
                          ![j] = [x |-> @.x - d.x, y |-> @.y - d.y]]
         IN  IF Collides(positions[i], positions[j])
             THEN PushPairs(moved, Tail(pairs))
             ELSE PushPairs(positions, Tail(pairs))

(* hasCollision at the end of a pass: the pass pushes nothing until it
   meets the first colliding pair, so it meets one exactly when some pair
   collides as the pass begins. *)
AnyCollision(positions) ==
    \E i \in 1..Len(positions) : \E j \in (i + 1)..Len(positions) :
        Collides(positions[i], positions[j])

(* The while loop: at most maxIterations passes, ended by the first pass
   that meets no colliding pair. *)
RECURSIVE resolveCollisions(_, _)
resolveCollisions(positions, iteration) ==
    IF iteration >= maxIterations \/ ~ AnyCollision(positions)
    THEN positions
    ELSE resolveCollisions(
             PushPairs(positions, PairsFrom(1, 2, Len(positions))),
             iteration + 1)

(* The value of `iteration` when the while loop ends: the number of
   passes that met a collision. *)
RECURSIVE collisionPasses(_, _)
collisionPasses(positions, iteration) ==
    IF iteration >= maxIterations \/ ~ AnyCollision(positions)
    THEN iteration
    ELSE collisionPasses(
             PushPairs(positions, PairsFrom(1, 2, Len(positions))),
             iteration + 1)

calculateCircularPositions(center, count, jitter) ==
    resolveCollisions(
        [k \in 1..count |-> RingPosition(center, count, k - 1, jitter[k - 1])], 0)

----------------------------------------------------------------------------
(* Clone records and the animation state machine *)

States == {"spawning", "active", "dismissing"}

(* spawnClones, the object pushed for index i at position pos. *)
NewCloneNoStagger(i, pos) ==
    [id |-> i, x |-> pos.x, y |-> pos.y,
     delay |-> cloneDelay, opacity |-> 1, scale |-> 1,
     animationState |-> "spawning", animationProgress |-> 0, spawnDelay |-> 0]

NewClone(i, pos) ==
    [id |-> i, x |-> pos.x, y |-> pos.y,
     delay |-> cloneDelay + i, opacity |-> 1, scale |-> 1,
     animationState |-> "spawning", animationProgress |-> 0,
     spawnDelay |-> i * StaggerInterval]

(* spawnClones: `count || this.maxClones` (null and 0 are both falsy). *)
cloneCountOf(count, max) == IF count = 0 THEN max ELSE count

(* spawnClones: `this.clones = []` followed by one push per ring index;
   a negative cloneCount runs the loop zero times. *)
spawnBatchAppending(old, cloneCount, positions) ==
    old \o [k \in 1..cloneCount |-> NewClone(k - 1, positions[k])]

spawnBatch(old, cloneCount, positions) ==
    [k \in 1..cloneCount |-> NewClone(k - 1, positions[k])]

(* dismissClones with the bursts appended to those still pending. *)
dismissBurstsAppending(pending, cs) ==
    pending \o [k \in 1..Len(cs) |->
                  [id |-> cs[k].id, x |-> cs[k].x, y |-> cs[k].y,
                   type |-> "dismiss"]]

(* dismissClones: particlePositions = clones.map(c => ({x, y, type})).
   The id is kept with each burst to name the clone it was queued for. *)
dismissBursts(pending, cs) ==
    [k \in 1..Len(cs) |->
        [id |-> cs[k].id, x |-> cs[k].x, y |-> cs[k].y, type |-> "dismiss"]]

(* dismissClones with the position reset along with the animation. *)
DismissedCloneMoved(c, index) ==
    [c EXCEPT !.animationState = "dismissing",
              !.animationProgress = 0,
              !.spawnDelay = index * StaggerInterval,
              !.x = 0, !.y = 0]

(* dismissClones with every clone starting at once. *)
DismissedCloneNoStagger(c, index) ==
    [c EXCEPT !.animationState = "dismissing",
              !.animationProgress = 0,
              !.spawnDelay = 0]

(* dismissClones, the forEach body for the clone at array index `index`. *)
DismissedClone(c, index) ==
    [c EXCEPT !.animationState = "dismissing",
              !.animationProgress = 0,
              !.spawnDelay = index * StaggerInterval]

(* deltaTime / duration, in progress units. *)
AdvanceSpawnOnly(c, deltaTime) ==
    IF c.animationState = "spawning"
    THEN deltaTime * (ProgressOne \div SpawnDuration)
    ELSE 0

Advance(c, deltaTime) ==
    IF c.animationState = "spawning"
    THEN deltaTime * (ProgressOne \div SpawnDuration)
    ELSE deltaTime * (ProgressOne \div DismissDuration)

(* updateAnimations, the filter callback: what it does to the clone ... *)
AnimateCloneNoReset(c, deltaTime) ==
    IF c.animationState \in {"spawning", "dismissing"}
    THEN IF c.spawnDelay > 0
         THEN [c EXCEPT !.spawnDelay = @ - deltaTime]
         ELSE LET p == c.animationProgress + Advance(c, deltaTime)
              IN  IF p >= ProgressOne /\ c.animationState = "spawning"
                  THEN [c EXCEPT !.animationState = "active",
                                 !.animationProgress = p]
                  ELSE [c EXCEPT !.animationProgress = p]
    ELSE c

AnimateClone(c, deltaTime) ==
    IF c.animationState \in {"spawning", "dismissing"}
    THEN IF c.spawnDelay > 0
         THEN [c EXCEPT !.spawnDelay = @ - deltaTime]
         ELSE LET p == c.animationProgress + Advance(c, deltaTime)
              IN  IF p >= ProgressOne /\ c.animationState = "spawning"
                  THEN [c EXCEPT !.animationState = "active",
                                 !.animationProgress = 0]
                  ELSE [c EXCEPT !.animationProgress = p]
    ELSE c

(* ... and whether it keeps it (false only for a finished dismissal). *)
KeepCloneAlways(c, deltaTime) == TRUE

KeepClone(c, deltaTime) ==
    ~ ( /\ c.animationState = "dismissing"
        /\ c.spawnDelay <= 0
        /\ c.animationProgress + Advance(c, deltaTime) >= ProgressOne )

RECURSIVE updateClones(_, _)
updateClones(cs, deltaTime) ==
    IF cs = <<>> THEN <<>>
    ELSE (IF KeepClone(Head(cs), deltaTime)
          THEN <<AnimateClone(Head(cs), deltaTime)>>
          ELSE <<>>) \o updateClones(Tail(cs), deltaTime)

(* updateAnimations: `if (this.clones.length === 0) this.isActive = false` *)
isActiveAfterKept(cs, active) == active

isActiveAfter(cs, active) == IF Len(cs) = 0 THEN FALSE ELSE active

(* hasActiveClones *)
hasActiveClones == isActive /\ Len(clones) > 0

CloneIds(cs) == {cs[i].id : i \in 1..Len(cs)}

IndexOf(cs, id) == CHOOSE i \in 1..Len(cs) : cs[i].id = id

CloneById(cs, id) == cs[IndexOf(cs, id)]

----------------------------------------------------------------------------
(* CloneManager operations *)

(* The state change of spawnClones(center.x, center.y, count) when
   Math.random yields the offsets `jitter`. *)
SpawnBody(center, count, jitter) ==
    LET cloneCount == cloneCountOf(count, maxClones)
    IN  \E positions \in {calculateCircularPositions(center, cloneCount, jitter)} :
        /\ clones' = spawnBatch(clones, cloneCount, positions)
        /\ isActive' = TRUE
        /\ particlePositions' =
               [k \in 1..Len(positions) |->
                   [id |-> k - 1, x |-> positions[k].x, y |-> positions[k].y,
                    type |-> "spawn"]]
        /\ lastOp' = "spawn"
        /\ cmd' = [kind |-> "spawn", count |-> count,
                   stagger |-> [id \in 0..(cloneCount - 1) |->
                                   id * StaggerInterval],
                   from |-> [id \in 0..(cloneCount - 1) |-> "new"]]
        /\ elapsed' = 0
        /\ replaced' = Len(clones)
        /\ emitted' = <<>>
        /\ drawn' = <<>>
        /\ trace' = <<>>
        /\ videoWidth' = 0
        /\ threw' = FALSE
        /\ iterations' = collisionPasses(
               [k \in 1..cloneCount |->
                   RingPosition(center, cloneCount, k - 1, jitter[k - 1])], 0)
        /\ UNCHANGED <<bufferVars, lastGet, fixedDt, appVars, particleVars, ctx>>

(* CloneManager.spawnClones(centerX, centerY, count) called directly. *)
SpawnClones(count) ==
    /\ \E center \in Centers :
           \E jitter \in Jitters(cloneCountOf(count, maxClones)) :
               SpawnBody(center, count, jitter)
    /\ UNCHANGED collabVars

(* CloneRecorderApp.spawnClones():
     count = settings.cloneCountOverride || cloneManager.maxClones *)
AppSpawnBody ==
    \E center \in Centers :
        \E jitter \in Jitters(cloneCountOf(cloneCountOverride, maxClones)) :
            SpawnBody(center, cloneCountOf(cloneCountOverride, maxClones), jitter)

AppSpawnClones ==
    /\ AppSpawnBody
    /\ UNCHANGED collabVars

(* setMaxClonesFromFPS(fps) *)
maxClonesFromFPS(fps) ==
    IF fps < 20 THEN 2
    ELSE IF fps < 30 THEN 3
    ELSE IF fps < 45 THEN 5
    ELSE 7

SetMaxClonesFromFPS(fps) ==
    /\ maxClones' = maxClonesFromFPS(fps)
    /\ lastOp' = "setMaxClones"
    /\ NoOutput
    /\ UNCHANGED <<bufferVars, lastGet, cloneVars, histVars, cloneCountOverride,
                   pipelineVars, perfVars, particleVars, ctx, collabVars>>

(* The clone-count control's input listener:
     settings.cloneCountOverride = value;
     if (value > 0) cloneManager.maxClones = value *)
SetCloneCountOverride(value) ==
    /\ cloneCountOverride' = value
    /\ maxClones' = IF value > 0 THEN value ELSE maxClones
    /\ lastOp' = "setOverride"
    /\ NoOutput
    /\ UNCHANGED <<bufferVars, lastGet, cloneVars, histVars, pipelineVars,
                   perfVars, particleVars, ctx, collabVars>>

(* The state change of CloneManager.dismissClones. *)
DismissBody ==
    /\ clones' = [k \in 1..Len(clones) |-> DismissedClone(clones[k], k - 1)]
    /\ particlePositions' = dismissBursts(particlePositions, clones)
    /\ cmd' = [kind |-> "dismiss", count |-> Len(clones),
               stagger |-> [id \in CloneIds(clones) |->
                   (IndexOf(clones, id) - 1) * StaggerInterval],
               from |-> [id \in CloneIds(clones) |->
                   CloneById(clones, id).animationState]]
    /\ elapsed' = 0
    /\ UNCHANGED fixedDt
    /\ NoOutput
    /\ UNCHANGED <<bufferVars, lastGet, isActive, appVars, particleVars, ctx>>

(* CloneManager.dismissClones() called directly. *)
DismissClones ==
    /\ UNCHANGED collabVars
    /\ DismissBody
    /\ lastOp' = "dismiss"

(* CloneRecorderApp.dismissClones(): guarded by hasActiveClones(). *)
AppDismissBody ==
    \/ /\ hasActiveClones
       /\ DismissBody
       /\ lastOp' = "dismiss"
    \/ /\ ~ hasActiveClones
       /\ lastOp' = "dismissSkipped"
       /\ NoOutput
       /\ UNCHANGED <<bufferVars, lastGet, cloneVars, histVars, appVars,
                      particleVars, ctx>>

AppDismissClones ==
    /\ AppDismissBody
    /\ UNCHANGED collabVars

(* The state change of updateAnimations(deltaTime). *)
UpdateBody(deltaTime) ==
    /\ clones' = updateClones(clones, deltaTime)
    /\ isActive' = isActiveAfter(clones', isActive)
    /\ lastOp' = "tick"
    /\ NoOutput
    /\ UNCHANGED <<bufferVars, lastGet, particlePositions, settingsVars,
                   particleVars, ctx>>

(* updateAnimations(deltaTime), any deltaTime. *)
UpdateAnimations(deltaTime) ==
    /\ UpdateBody(deltaTime)
    /\ UNCHANGED histVars

(* updateAnimations(fixedDt): one tick of a run whose ticks all have the
   same positive deltaTime; the time since the last command is recorded. *)
FixedTick ==
    /\ UpdateBody(fixedDt)
    /\ elapsed' = Min(elapsed + fixedDt, MaxElapsed)
    /\ UNCHANGED <<cmd, fixedDt>>

(* clear() *)
Clear ==
    /\ clones' = <<>>
    /\ isActive' = FALSE
    /\ frameBuffer' = <<>>
    /\ pushed' = 0
    /\ particlePositions' = <<>>
    /\ lastOp' = "clear"
    /\ cmd' = NoCmd
    /\ elapsed' = 0
    /\ UNCHANGED fixedDt
    /\ NoOutput
    /\ UNCHANGED <<lastGet, settingsVars, particleVars, ctx>>

----------------------------------------------------------------------------
(* EffectRenderer *)

(* drawClone: look the delayed frame up; return early when there is none. *)
DrawCloneNeverSkip(c, buf) ==
    [id |-> c.id, delay |-> c.delay, frame |-> getDelayedFrame(buf, c.delay),
     skipped |-> FALSE]

DrawClone(c, buf) ==
    LET delayedFrame == getDelayedFrame(buf, c.delay)
    IN  [id |-> c.id, delay |-> c.delay, frame |-> delayedFrame,
         skipped |-> (delayedFrame = NoFrame)]

(* drawClones: one drawClone per clone, in collection order. *)
drawClonesOf(cs, buf) == [k \in 1..Len(cs) |-> DrawClone(cs[k], buf)]

(* The 2D context: save pushes the drawing state, restore pops it (and
   does nothing on an empty stack). *)
ctxSave(c) ==
    [c EXCEPT !.stack = Append(@, [globalAlpha |-> c.globalAlpha,
                                   clip |-> c.clip,
                                   transform |-> c.transform])]

ctxRestore(c) ==
    IF c.stack = <<>> THEN c
    ELSE LET top == c.stack[Len(c.stack)]
         IN  [globalAlpha |-> top.globalAlpha, clip |-> top.clip,
              transform |-> top.transform,
              stack |-> SubSeq(c.stack, 1, Len(c.stack) - 1)]

(* Math.sin(popProgress * Math.PI) in thousandths, popProgress in progress
   units, by Bhaskara's formula 16 t (1 - t) / (5 - 4 t (1 - t)). *)
SinPi(t) ==
    LET a == (t * (ProgressOne - t)) \div 1000
    IN  (16000 * a) \div (5 * (ProgressOne \div 1000) * ProgressOne - 4 * a)

(* drawClone: opacity, in progress units. *)
CloneOpacityUnclamped(c) ==
    IF c.animationState = "spawning"
    THEN c.animationProgress * 2
    ELSE IF c.animationState = "dismissing"
    THEN ProgressOne - c.animationProgress
    ELSE c.opacity * ProgressOne

CloneOpacity(c) ==
    IF c.animationState = "spawning"
    THEN Min(c.animationProgress * 2, ProgressOne)
    ELSE IF c.animationState = "dismissing"
    THEN ProgressOne - c.animationProgress
    ELSE c.opacity * ProgressOne

(* drawClone: the clip rectangle as [clipY, clipHeight], in progress units. *)
CloneClip(c) ==
    IF c.animationState = "spawning"
    THEN [clipY |-> ProgressOne - c.animationProgress,
          clipHeight |-> c.animationProgress]
    ELSE IF c.animationState = "dismissing"
    THEN [clipY |-> 0, clipHeight |-> ProgressOne - c.animationProgress]
    ELSE [clipY |-> 0, clipHeight |-> ProgressOne]

(* drawClone: scale * 0.6, in thousandths, with the pop above 0.8. *)
CloneScale(c) ==
    LET popStart == (ProgressOne \div 5) * 4
        scale == IF c.animationState = "spawning"
                    /\ c.animationProgress > popStart
                 THEN 1000 + (50 * SinPi((c.animationProgress - popStart) * 5))
                              \div 1000
                 ELSE c.scale * 1000
    IN  (scale * 6) \div 10

(* One step of a render, with the drawing state it ran under. *)
Step(op, arg, c) ==
    [op |-> op, arg |-> arg, globalAlpha |-> c.globalAlpha, clip |-> c.clip,
     transform |-> c.transform, saved |-> Len(c.stack)]

(* drawClone on context c: nothing at all without a frame; otherwise save,
   set alpha, transform and clip, drawImage, restore. *)
drawCloneNoRestore(c, clone, buf) ==
    IF getDelayedFrame(buf, clone.delay) = NoFrame
    THEN [ctx |-> c, steps |-> <<>>]
    ELSE LET set == [ctxSave(c) EXCEPT
                        !.globalAlpha = CloneOpacity(clone),
                        !.transform = [x |-> clone.x, y |-> clone.y,
                                       scale |-> CloneScale(clone)],
                        !.clip = CloneClip(clone)]
         IN  [ctx |-> set, steps |-> <<Step("drawClone", clone.id, set)>>]

drawClone(c, clone, buf) ==
    IF getDelayedFrame(buf, clone.delay) = NoFrame
    THEN [ctx |-> c, steps |-> <<>>]
    ELSE LET set == [ctxSave(c) EXCEPT
                        !.globalAlpha = CloneOpacity(clone),
                        !.transform = [x |-> clone.x, y |-> clone.y,
                                       scale |-> CloneScale(clone)],
                        !.clip = CloneClip(clone)]
         IN  [ctx |-> ctxRestore(set),
              steps |-> <<Step("drawClone", clone.id, set)>>]

(* drawClones on context c: the context it leaves and the draws it made. *)
RECURSIVE drawClonesOn(_, _, _)
drawClonesOn(c, cs, buf) ==
    IF cs = <<>> THEN [ctx |-> c, steps |-> <<>>]
    ELSE LET first == drawClone(c, Head(cs), buf)
             rest == drawClonesOn(first.ctx, Tail(cs), buf)
         IN  [ctx |-> rest.ctx, steps |-> first.steps \o rest.steps]

(* EffectRenderer.drawClones(cloneManager) called directly. *)
DrawClones ==
    /\ drawn' = drawClonesOf(clones, frameBuffer)
    /\ \E done \in {drawClonesOn(ctx, clones, frameBuffer)} :
          ctx' = done.ctx /\ trace' = done.steps
    /\ lastOp' = "draw"
    /\ emitted' = <<>>
    /\ replaced' = 0
    /\ videoWidth' = 0
    /\ threw' = FALSE
    /\ iterations' = 0
    /\ UNCHANGED <<bufferVars, lastGet, cloneVars, histVars, settingsVars,
                   particleVars>>

(* drawVideoFullScreen: nothing while the video has no size. *)
drawVideoFullScreen(c, videoReady) ==
    IF videoReady THEN <<Step("drawVideoFullScreen", 0, c)>> ELSE <<>>

(* render with the live frame drawn before the clones. *)
renderStepsLiveFirst(c, frame, pending, done, videoReady) ==
    <<Step("addFrame", frame, c), Step("updateAnimations", 0, c),
      Step("fillRect", 0, c), Step("particleUpdate", 0, c)>>
    \o [k \in 1..Len(pending) |-> Step("emit", pending[k].id, c)]
    \o <<Step("particleRender", 0, c)>>
    \o drawVideoFullScreen(c, videoReady)
    \o done.steps

(* render, the calls it makes in order: addFrame(frame), updateAnimations,
   fillRect, particleSystem.update, one emit per pending burst,
   particleSystem.render (which restores what it saves), drawClones when
   hasActiveClones(), drawVideoFullScreen.  `done` is what drawClones did,
   if called: the draws it made and the context it left. *)
renderSteps(c, frame, pending, done, videoReady) ==
    <<Step("addFrame", frame, c), Step("updateAnimations", 0, c),
      Step("fillRect", 0, c), Step("particleUpdate", 0, c)>>
    \o [k \in 1..Len(pending) |-> Step("emit", pending[k].id, c)]
    \o <<Step("particleRender", 0, c)>>
    \o done.steps
    \o drawVideoFullScreen(done.ctx, videoReady)

(* drawClones when drawClone goes through segmentationManager.applyMask
   (cloneManager.useSegmentation && this.segmentationManager) and applyMask
   throws or not this tick.  applyMask is called after the early return and
   before ctx.save(), and nothing in drawClone, drawClones or render
   catches: the first clone that has a delayed frame ends the whole call,
   with the canvas context as it was. *)
RECURSIVE drawClonesMasked(_, _, _, _)
drawClonesMasked(c, cs, buf, maskThrows) ==
    IF cs = <<>> THEN [ctx |-> c, steps |-> <<>>, threw |-> FALSE]
    ELSE IF maskThrows /\ getDelayedFrame(buf, Head(cs).delay) # NoFrame
    THEN [ctx |-> c, steps |-> <<>>, threw |-> TRUE]
    ELSE LET first == drawClone(c, Head(cs), buf)
             rest == drawClonesMasked(first.ctx, Tail(cs), buf, maskThrows)
         IN  [ctx |-> rest.ctx, steps |-> first.steps \o rest.steps,
              threw |-> rest.threw]

(* render cut short by an exception out of drawClones: the steps made. *)
renderStepsThrown(c, frame, pending, done) ==
    <<Step("addFrame", frame, c), Step("updateAnimations", 0, c),
      Step("fillRect", 0, c), Step("particleUpdate", 0, c)>>
    \o [k \in 1..Len(pending) |-> Step("emit", pending[k].id, c)]
    \o <<Step("particleRender", 0, c)>>
    \o done.steps

(* EffectRenderer.render(cloneManager) when performance.now() has advanced
   by deltaTime, the video element is, or is not yet, delivering frames
   (videoWidth non-zero or 0), and applyMask would, or would not, throw.
   segmentationManager.processFrame is an async function: it returns a
   promise and never throws into render.  The particle system's own state
   is the caller's to add (Render, RenderAll). *)
RenderBody(deltaTime, videoReady, maskThrows) ==
    /\ pushed < MaxFrames
    /\ frameBuffer' = PushFrame(frameBuffer, pushed + 1)
    /\ pushed' = pushed + 1
    /\ clones' = updateClones(clones, deltaTime)
    /\ isActive' = isActiveAfter(clones', isActive)
    /\ emitted' = particlePositions
    /\ particlePositions' = <<>>
    /\ videoWidth' = IF videoReady THEN 1280 ELSE 0
    /\ \E done \in {IF isActive' /\ Len(clones') > 0
                     THEN drawClonesMasked(ctx, clones', frameBuffer',
                              maskThrows /\ useSegmentation
                                         /\ segmentationManager)
                     ELSE [ctx |-> ctx, steps |-> <<>>, threw |-> FALSE]} :
          /\ trace' = IF done.threw
                      THEN renderStepsThrown(ctx, pushed + 1,
                                             particlePositions, done)
                      ELSE renderSteps(ctx, pushed + 1, particlePositions,
                                       done, videoReady)
          /\ ctx' = done.ctx
          /\ threw' = done.threw
          /\ drawn' = IF isActive' /\ Len(clones') > 0 /\ ~done.threw
                      THEN drawClonesOf(clones', frameBuffer')
                      ELSE <<>>
    /\ lastOp' = "render"
    /\ replaced' = 0
    /\ iterations' = 0
    /\ UNCHANGED <<lastGet, histVars, appVars>>

(* render in the application: main.js constructs the renderer without a
   segmentation manager.  The bursts handed to emit are recorded in
   `emitted`; the particle system's state is modelled in SpecParticles. *)
Render(deltaTime, videoReady) ==
    /\ RenderBody(deltaTime, videoReady, FALSE)
    /\ UNCHANGED <<particleVars, collabVars>>

----------------------------------------------------------------------------
(* ParticleSystem (src/js/video_effects/particle-system.js).

   life is a JavaScript number, and the tick in which a particle dies
   depends on how `life -= dt / maxLife` rounds, so life is kept as the
   exact binary64 value: a whole number of units of 2^-55, written with two
   limbs [hi, lo] = hi * 2^28 + lo.  Every double between 2^-3 and 2 is a
   whole number of such units.  Positions, velocities and sizes are in
   thousandths; delay and maxLife in milliseconds. *)

ParticleCap == 200
Limb == 268435456
PosOne == 1000

DblOne == [hi |-> 134217728, lo |-> 0]
DblZero == [hi |-> 0, lo |-> 0]

DblPositive(a) == a.hi > 0 \/ (a.hi = 0 /\ a.lo > 0)

DblLeq(a, b) == a.hi < b.hi \/ (a.hi = b.hi /\ a.lo <= b.lo)

(* Round a non-negative exact value to 53 significant bits, ties to even. *)
DblRound(d) ==
    LET m == IF d.hi >= 134217728 THEN 8
             ELSE IF d.hi >= 67108864 THEN 4
             ELSE IF d.hi >= 33554432 THEN 2
             ELSE 1
        r == d.lo % m
        down == d.lo - r
        lo == IF 2 * r < m THEN down
              ELSE IF 2 * r > m THEN down + m
              ELSE IF (down \div m) % 2 = 0 THEN down
              ELSE down + m
    IN  IF lo >= Limb THEN [hi |-> d.hi + 1, lo |-> lo - Limb]
        ELSE [hi |-> d.hi, lo |-> lo]

(* a - b in binary64 for doubles a, b >= 0; a result below zero is only
   ever compared with 0, and is stood for by DblZero. *)
DblSub(a, b) ==
    LET borrow == IF a.lo < b.lo THEN 1 ELSE 0
        lo == a.lo - b.lo + borrow * Limb
        hi == a.hi - b.hi - borrow
    IN  IF hi < 0 THEN DblZero ELSE DblRound([hi |-> hi, lo |-> lo])

(* dt / p.maxLife with dt = deltaTime / 1000: the binary64 quotients for
   the tick lengths and lifetimes used here (0.2, 0.1333..., 0.5, 0.3333...). *)
LifeStep(deltaTime, maxLife) ==
    IF deltaTime = 100 /\ maxLife = 500 THEN [hi |-> 26843545, lo |-> 161061274]
    ELSE IF deltaTime = 100 /\ maxLife = 750 THEN [hi |-> 17895697, lo |-> 17895697]
    ELSE IF deltaTime = 250 /\ maxLife = 500 THEN [hi |-> 67108864, lo |-> 0]
    ELSE [hi |-> 44739242, lo |-> 178956970]

ParticleDeltaTimes == {100, 250}

(* The Math.random() draws of one particle: vx = cos(angle) * speed in
   (-5, 5), |vy| in [2, 7), size in [40, 80), maxLife in [0.5, 1),
   delay in [0, 200). *)
DrawShort ==
    [vx |-> 2000, vy |-> 2000, size |-> 40000, maxLife |-> 500, delay |-> 0]

DrawLong ==
    [vx |-> -3000, vy |-> 4500, size |-> 60000, maxLife |-> 750, delay |-> 150]

ParticleDraws == {DrawShort, DrawLong}

(* The draws of one emit call: independent for a call of one or two
   particles, the two draws in alternation for a larger call. *)
Draws(count) ==
    IF count <= 2 THEN [1..count -> ParticleDraws]
    ELSE { [i \in 1..count |-> IF i % 2 = 1 THEN DrawShort ELSE DrawLong] }

ParticleTypes == {"spawn", "dismiss"}

(* emit, the particle pushed as i-th of call number `call`.  serial and
   aged are history: which emit it came from, and how many update ticks
   have aged it. *)
NewParticle(call, i, pos, type, draw) ==
    [serial |-> <<call, i>>,
     x |-> pos.x * PosOne,
     y |-> IF type = "spawn" THEN (pos.y + 100) * PosOne
           ELSE (pos.y - 100) * PosOne,
     vx |-> draw.vx,
     vy |-> IF type = "spawn" THEN 0 - draw.vy ELSE draw.vy,
     size |-> draw.size,
     opacity |-> 800,
     life |-> DblOne,
     maxLife |-> draw.maxLife,
     delay |-> draw.delay,
     type |-> type,
     aged |-> 0]

(* emit: `if (length > 200) particles = particles.slice(-200)` *)
capParticlesKeepOldest(ps) ==
    IF Len(ps) > ParticleCap THEN SubSeq(ps, 1, ParticleCap) ELSE ps

capParticles(ps) ==
    IF Len(ps) > ParticleCap
    THEN SubSeq(ps, Len(ps) - ParticleCap + 1, Len(ps))
    ELSE ps

emitParticles(ps, call, pos, count, type, draws) ==
    capParticles(ps \o [i \in 1..count |->
                           NewParticle(call, i, pos, type, draws[i])])

(* update, the filter callback: what it does to the particle ... *)
UpdateParticle(p, deltaTime) ==
    IF p.delay > 0
    THEN [p EXCEPT !.delay = @ - deltaTime]
    ELSE LET life == DblSub(p.life, LifeStep(deltaTime, p.maxLife))
         IN  [p EXCEPT !.x = @ + p.vx,
                       !.y = @ + p.vy,
                       !.vx = (@ * 95) \div 100,
                       !.vy = ((@ * 95) \div 100)
                                + (IF p.type = "spawn" THEN -100 ELSE 100),
                       !.life = life,
                       !.opacity = life,
                       !.size = @ + 2 * PosOne,
                       !.aged = @ + 1]

(* ... and whether it keeps it: delayed, or p.life > 0 after aging. *)
KeepParticle(p, deltaTime) ==
    p.delay > 0 \/ DblPositive(DblSub(p.life, LifeStep(deltaTime, p.maxLife)))

updateParticles(ps, deltaTime) ==
    LET keep(p) == KeepParticle(p, deltaTime)
        kept == SelectSeq(ps, keep)
    IN  [k \in 1..Len(kept) |-> UpdateParticle(kept[k], deltaTime)]

EmitCmd(count) ==
    [kind |-> "emit", count |-> count, stagger |-> <<>>, from |-> <<>>]

(* ParticleSystem.emit(x, y, count, type) *)
Emit(pos, count, type, draws) ==
    /\ emitCalls < MaxEmits
    /\ particles' = emitParticles(particles, emitCalls + 1, pos, count, type, draws)
    /\ emitCalls' = emitCalls + 1
    /\ lastOp' = "emit"
    /\ cmd' = EmitCmd(count)
    /\ NoOutput
    /\ UNCHANGED <<bufferVars, lastGet, cloneVars, elapsed, fixedDt, settingsVars,
                   ctx>>

EmitAny(counts) ==
    \E pos \in Centers : \E count \in counts : \E type \in ParticleTypes :
        \E draws \in Draws(count) : Emit(pos, count, type, draws)

(* ParticleSystem.update(fixedDt) *)
ParticleUpdate ==
    /\ particles' = updateParticles(particles, fixedDt)
    /\ lastOp' = "particleUpdate"
    /\ NoOutput
    /\ UNCHANGED <<bufferVars, lastGet, cloneVars, histVars, settingsVars,
                   emitCalls, ctx>>

(* ParticleSystem.clear() *)
ParticleClear ==
    /\ particles' = <<>>
    /\ lastOp' = "particleClear"
    /\ NoOutput
    /\ UNCHANGED <<bufferVars, lastGet, cloneVars, histVars, settingsVars,
                   emitCalls, ctx>>

InitParticles == InitBase /\ fixedDt \in ParticleDeltaTimes

(* A few particles at a time, each with its own draws. *)
NextParticles ==
    \/ EmitAny({1, 2})
    \/ ParticleUpdate
    \/ ParticleClear

SpecParticles == InitParticles /\ [][NextParticles]_vars

(* Large emit calls: the default count, and one that exceeds the cap. *)
InitCap == InitBase /\ fixedDt \in {250}

NextCap ==
    \/ EmitAny({30, 250})
    \/ ParticleUpdate

SpecCap == InitCap /\ [][NextCap]_vars

----------------------------------------------------------------------------
(* The whole engine.  One set of random offsets per ring size is followed
   here; SpecSpawn and SpecAnim follow both. *)
SpawnClonesAlternating(count) ==
    /\ \E center \in Centers :
           SpawnBody(center, count, AlternatingJitter(count))
    /\ UNCHANGED collabVars

Next ==
    \/ \E count \in 1..MaxCount : SpawnClonesAlternating(count)
    \/ DismissClones
    \/ AppDismissClones
    \/ \E dt \in DeltaTimes : UpdateAnimations(dt)
    \/ \E dt \in DeltaTimes : \E videoReady \in BOOLEAN : Render(dt, videoReady)
    \/ DrawClones
    \/ Clear

Spec == Init /\ [][Next]_vars

(* Spawning with any count under any maximum. *)
FpsSamples == {15, 25, 40, 60}
SpawnCounts == (-2..0) \cup (1..MaxCount)

NextSpawn ==
    \/ \E fps \in FpsSamples : SetMaxClonesFromFPS(fps)
    \/ \E value \in 0..MaxCount : SetCloneCountOverride(value)
    \/ \E count \in SpawnCounts : SpawnClones(count)
    \/ AppSpawnClones
    \/ DismissClones
    \/ \E dt \in {1500} : UpdateAnimations(dt)

SpecSpawn == Init /\ [][NextSpawn]_vars

(* The application with its particle system: render ages the particles
   and turns every pending burst into particles. *)

(* render: particleSystem.emit(p.x, p.y, 20, p.type) *)
BurstCount == 20

(* render: pendingParticles.forEach(p => emit(...)), in order. *)
RECURSIVE emitBursts(_, _, _)
emitBursts(ps, call, pending) ==
    IF pending = <<>> THEN ps
    ELSE emitBursts(
             emitParticles(ps, call + 1,
                           [x |-> Head(pending).x, y |-> Head(pending).y],
                           BurstCount, Head(pending).type,
                           CHOOSE draws \in Draws(BurstCount) : TRUE),
             call + 1, Tail(pending))

(* The whole of render, particle system included, with the video ready. *)
RenderAll(deltaTime) ==
    /\ emitCalls + Len(particlePositions) <= MaxEmits
    /\ RenderBody(deltaTime, TRUE, FALSE)
    /\ particles' = emitBursts(updateParticles(particles, deltaTime),
                               emitCalls, particlePositions)
    /\ emitCalls' = emitCalls + Len(particlePositions)
    /\ UNCHANGED collabVars

(* CloneRecorderApp.destroy(): cancelAnimationFrame, camera.stop(),
   gestureDetector.stop(), cloneManager.clear().  The renderer and its
   particle system are not touched. *)
Destroy ==
    /\ clones' = <<>>
    /\ isActive' = FALSE
    /\ frameBuffer' = <<>>
    /\ pushed' = 0
    /\ particlePositions' = <<>>
    /\ lastOp' = "destroy"
    /\ cmd' = NoCmd
    /\ elapsed' = 0
    /\ UNCHANGED fixedDt
    /\ NoOutput
    /\ UNCHANGED <<lastGet, settingsVars, particleVars, ctx>>

NextDestroy ==
    \/ \E count \in 1..2 : SpawnClonesAlternating(count)
    \/ DismissClones
    \/ \E dt \in {250} : RenderAll(dt)
    \/ Clear
    \/ Destroy
    \/ ParticleClear

SpecDestroy == Init /\ [][NextDestroy]_vars

(* Start-up and the adaptive settings: PerformanceManager and the part of
   CloneRecorderApp.init that applies its values.  FPS values are whole
   frames per second; scales are hundredths. *)

(* determinePerformanceTier(fps): the tier and the settings it stores. *)
determinePerformanceTierShifted(fps) ==
    IF fps < 20 THEN [tier |-> "low", settings |-> LowEndSettings]
    ELSE IF fps < 35 THEN [tier |-> "medium", settings |-> HighSettings]
    ELSE [tier |-> "high", settings |-> HighSettings]

determinePerformanceTier(fps) ==
    IF fps < 20 THEN [tier |-> "low", settings |-> LowEndSettings]
    ELSE IF fps < 35 THEN [tier |-> "medium", settings |-> MediumSettings]
    ELSE [tier |-> "high", settings |-> HighSettings]

DeterminePerformanceTier(fps) ==
    /\ performanceTier' = determinePerformanceTier(fps).tier
    /\ settings' = determinePerformanceTier(fps).settings
    /\ lastOp' = "determineTier"
    /\ cmd' = [NoCmd EXCEPT !.kind = "fps", !.count = fps]
    /\ NoOutput
    /\ UNCHANGED <<bufferVars, lastGet, cloneVars, elapsed, fixedDt, maxClones,
                   cloneCountOverride, pipelineVars, isInitialized,
                   particleVars, ctx, collabVars>>

(* monitorRuntime(currentFPS): downgrade to low below 15 FPS. *)
MonitorRuntime(currentFPS) ==
    /\ IF currentFPS < 15 /\ performanceTier # "low"
       THEN performanceTier' = "low" /\ settings' = LowEndSettings
       ELSE UNCHANGED <<performanceTier, settings>>
    /\ lastOp' = "monitorRuntime"
    /\ cmd' = [NoCmd EXCEPT !.kind = "fps", !.count = currentFPS]
    /\ NoOutput
    /\ UNCHANGED <<bufferVars, lastGet, cloneVars, elapsed, fixedDt, maxClones,
                   cloneCountOverride, pipelineVars, isInitialized,
                   particleVars, ctx, collabVars>>

(* setFrameBufferScale: Math.max(0.25, Math.min(1.0, scale)) *)
clampScale(scale) == Max(25, Min(100, scale))

(* CloneManager.setFrameBufferScale(scale): stores the scale, nothing else;
   addFrame and frameBufferSize never read it. *)
SetFrameBufferScale(scale) ==
    /\ frameBufferScale' = clampScale(scale)
    /\ lastOp' = "setFrameBufferScale"
    /\ NoOutput
    /\ UNCHANGED <<bufferVars, lastGet, cloneVars, histVars, maxClones,
                   cloneCountOverride, useSegmentation, segmentationManager,
                   perfVars, particleVars, ctx, collabVars>>

(* The constructor's loadSettings(): a saved cloneCountOverride. *)
LoadSettings(value) ==
    /\ lastOp = "init"
    /\ cloneCountOverride' = value
    /\ lastOp' = "loadSettings"
    /\ NoOutput
    /\ UNCHANGED <<bufferVars, lastGet, cloneVars, histVars, maxClones,
                   pipelineVars, perfVars, particleVars, ctx, collabVars>>

(* CloneRecorderApp.init() from the performance measurement on, when the
   measured average is fps: determinePerformanceTier(fps), then maxClones
   (tier's, or the override), then setFrameBufferScale; setSegmentation is
   not called.  The renderer is built without a segmentation manager. *)
AppInit(fps) ==
    /\ ~ isInitialized
    /\ performanceTier' = determinePerformanceTier(fps).tier
    /\ settings' = determinePerformanceTier(fps).settings
    /\ maxClones' = IF cloneCountOverride = 0 THEN settings'.maxClones
                    ELSE cloneCountOverride
    /\ frameBufferScale' = clampScale(settings'.frameBufferScale)
    /\ isInitialized' = TRUE
    /\ lastOp' = "appInit"
    /\ cmd' = [NoCmd EXCEPT !.kind = "fps", !.count = fps]
    /\ NoOutput
    /\ UNCHANGED <<bufferVars, lastGet, cloneVars, elapsed, fixedDt,
                   cloneCountOverride, useSegmentation, segmentationManager,
                   particleVars, ctx, collabVars>>

MeasuredFps == {14, 19, 20, 34, 35, 60}
Scales == {10, 50, 75, 150}

NextApp ==
    \/ \E value \in 0..MaxCount : LoadSettings(value)
    \/ \E fps \in MeasuredFps : AppInit(fps)
    \/ \E fps \in MeasuredFps : DeterminePerformanceTier(fps)
    \/ \E fps \in MeasuredFps : MonitorRuntime(fps)
    \/ \E scale \in Scales : SetFrameBufferScale(scale)
    \/ AddFrame(MaxPushed)

SpecApp == Init /\ [][NextApp]_vars

(* Placement on small and on crowded rings, under more draws of
   Math.random. *)
RingSizes == {1, 2, 3, 4, 8, 10, 11}

PlacementJitters(count) ==
    IF count <= 3 THEN [0..(count - 1) -> RandomOffsets]
    ELSE Jitters(count) \cup {InnerPairJitter(count), InnerJitter(count)}

(* spawnClones as the first batch, or once the previous one has gone. *)
SpawnRing(count) ==
    /\ clones = <<>>
    /\ \E center \in Centers : \E jitter \in PlacementJitters(count) :
           SpawnBody(center, count, jitter)
    /\ UNCHANGED collabVars

NextPlacement ==
    \/ \E count \in RingSizes : SpawnRing(count)
    \/ DismissClones

SpecPlacement == Init /\ [][NextPlacement]_vars

(* detectGesture: the peace sign is tested first, then the closed fist. *)
detectGestureIndexMiddle(fingers) ==
    IF fingers.index /\ fingers.middle THEN "spawn"
    ELSE IF ~ fingers.thumb /\ ~ fingers.index /\ ~ fingers.middle
            /\ ~ fingers.ring /\ ~ fingers.pinky
    THEN "dismiss"
    ELSE "null"

detectGesture(fingers) ==
    IF fingers.index /\ fingers.middle /\ ~ fingers.ring /\ ~ fingers.pinky
    THEN "spawn"
    ELSE IF ~ fingers.thumb /\ ~ fingers.index /\ ~ fingers.middle
            /\ ~ fingers.ring /\ ~ fingers.pinky
    THEN "dismiss"
    ELSE "null"

(* handleGestureTracking(gestureType) at Date.now() = t: the tracking
   fields it leaves and the gesture it calls the callback with. *)
handleGestureTrackingNoCooldown(last, start, type, gestureType, t) ==
    IF type # gestureType
    THEN [last |-> last, start |-> t, type |-> gestureType, fired |-> "null"]
    ELSE IF t - start >= holdDuration
    THEN [last |-> t, start |-> NoStart, type |-> "null",
          fired |-> gestureType]
    ELSE [last |-> last, start |-> start, type |-> type, fired |-> "null"]

handleGestureTracking(last, start, type, gestureType, t) ==
    IF t - last < cooldownDuration
    THEN [last |-> last, start |-> start, type |-> type, fired |-> "null"]
    ELSE IF type # gestureType
    THEN [last |-> last, start |-> t, type |-> gestureType, fired |-> "null"]
    ELSE IF t - start >= holdDuration
    THEN [last |-> t, start |-> NoStart, type |-> "null",
          fired |-> gestureType]
    ELSE [last |-> last, start |-> start, type |-> type, fired |-> "null"]

(* onResults, up to the callback: no hand or no gesture resets the
   tracking, a gesture goes through handleGestureTracking. *)
onResults(last, start, type, result, t) ==
    IF ~ result.hand \/ detectGesture(result.fingers) = "null"
    THEN [last |-> last, start |-> NoStart, type |-> "null", fired |-> "null"]
    ELSE handleGestureTracking(last, start, type,
                               detectGesture(result.fingers), t)

(* CloneRecorderApp.handleGesture, the callback given to the detector. *)
handleGesture(gestureType) ==
    \/ /\ gestureType = "spawn"
       /\ AppSpawnBody
    \/ /\ gestureType = "dismiss"
       /\ AppDismissBody
    \/ /\ gestureType \notin {"spawn", "dismiss"}
       /\ lastOp' = "results"
       /\ NoOutput
       /\ UNCHANGED <<bufferVars, lastGet, cloneVars, histVars, appVars,
                      particleVars, ctx>>

(* One hand-tracking result delivered gap ms after the previous one:
   GestureDetector.onResults and, when the hold completes, the callback. *)
OnResults(result, gap) ==
    /\ now + gap <= StartTime + MaxNow
    /\ now' = now + gap
    /\ \E track \in {onResults(lastGestureTime, currentGestureStart,
                                currentGestureType, result, now')} :
          /\ lastGestureTime' = track.last
          /\ currentGestureStart' = track.start
          /\ currentGestureType' = track.type
          /\ gesture' = [hand |-> result.hand, fingers |-> result.fingers,
                         type |-> IF result.hand
                                  THEN detectGesture(result.fingers)
                                  ELSE "null",
                         fired |-> track.fired]
          /\ firedAt' = IF track.fired = "null" THEN firedAt
                        ELSE Append(firedAt, now')
          /\ handleGesture(track.fired)
    /\ held' = IF ~ result.hand \/ detectGesture(result.fingers) = "null"
               THEN [type |-> "null", since |-> NoStart]
               ELSE IF held.type = detectGesture(result.fingers) THEN held
               ELSE [type |-> detectGesture(result.fingers), since |-> now']
    /\ UNCHANGED <<segVars, recVars>>

(* Results of every hand: no hand, or one of the 32 finger states; a
   result every 500 or 2000 ms. *)
AllResults == {NoHand} \cup {[hand |-> TRUE, fingers |-> f] : f \in FingerStates}

ClassifyGaps == {500, 2000}

NextClassify ==
    \E result \in AllResults : \E gap \in ClassifyGaps : OnResults(result, gap)

SpecClassify == Init /\ [][NextClassify]_vars

(* Results of four hands (none, peace sign, fist, open palm) at gaps that
   meet and miss the hold and cooldown durations by 1 ms. *)
PeaceSign == [AllDown EXCEPT !.index = TRUE, !.middle = TRUE]

OpenPalm == [thumb |-> TRUE, index |-> TRUE, middle |-> TRUE,
             ring |-> TRUE, pinky |-> TRUE]

TrackedResults ==
    {NoHand} \cup {[hand |-> TRUE, fingers |-> f] : f \in {PeaceSign, AllDown, OpenPalm}}

GestureGaps == {499, 500, 1001}

NextGesture ==
    \E result \in TrackedResults : \E gap \in GestureGaps : OnResults(result, gap)

SpecGesture == Init /\ [][NextGesture]_vars

(* The clone-count control after start-up: the override listener and the
   spawn gesture. *)
OverrideInput(value) ==
    /\ isInitialized
    /\ SetCloneCountOverride(value)

GestureSpawn ==
    /\ isInitialized
    /\ AppSpawnClones

NextOverride ==
    \/ \E value \in 0..MaxCount : LoadSettings(value)
    \/ \E fps \in MeasuredFps : AppInit(fps)
    \/ \E value \in 0..MaxCount : OverrideInput(value)
    \/ GestureSpawn

SpecOverride == Init /\ [][NextOverride]_vars

(* A renderer that was given a segmentation manager. *)

(* new EffectRenderer(canvas, videoElement, segmentationManager), before
   anything else is done. *)
NewEffectRenderer(withSegmentation) ==
    /\ lastOp = "init"
    /\ segmentationManager' = withSegmentation
    /\ lastOp' = "newRenderer"
    /\ NoOutput
    /\ UNCHANGED <<bufferVars, lastGet, cloneVars, histVars, maxClones,
                   cloneCountOverride, useSegmentation, frameBufferScale,
                   perfVars, particleVars, ctx, collabVars>>

(* CloneManager.setSegmentation(enabled) *)
SetSegmentation(enabled) ==
    /\ useSegmentation' = enabled
    /\ lastOp' = "setSegmentation"
    /\ NoOutput
    /\ UNCHANGED <<bufferVars, lastGet, cloneVars, histVars, maxClones,
                   cloneCountOverride, frameBufferScale, segmentationManager,
                   perfVars, particleVars, ctx, collabVars>>

(* render when applyMask may throw. *)
RenderMasked(deltaTime, videoReady, maskThrows) ==
    /\ RenderBody(deltaTime, videoReady, maskThrows)
    /\ UNCHANGED <<particleVars, collabVars>>

SegDeltaTimes == {700, 1500}

NextSeg ==
    \/ \E withSegmentation \in BOOLEAN : NewEffectRenderer(withSegmentation)
    \/ \E enabled \in BOOLEAN : SetSegmentation(enabled)
    \/ \E count \in 1..2 : SpawnClonesAlternating(count)
    \/ DismissClones
    \/ \E dt \in SegDeltaTimes : \E videoReady \in BOOLEAN :
          \E maskThrows \in BOOLEAN : RenderMasked(dt, videoReady, maskThrows)

SpecSeg == Init /\ [][NextSeg]_vars

(* The two SegmentationManager classes of the repository: segmentation.js
   (BodyPix; processFrame awaits segmentPerson and stores its result) and
   the one in particle-system.js (MediaPipe; processFrame awaits send and
   onResults stores the mask).  A renderer is given one of them; `ready`
   is isInitialized && bodyPixModel, or selfieSegmentation, not null. *)
SegmentationKinds == {"bodypix", "mediapipe"}

NewSegmentationManager(kind, ready) ==
    /\ lastOp = "init"
    /\ segManager' = [kind |-> kind, enabled |-> TRUE, ready |-> ready]
    /\ segmentationManager' = TRUE
    /\ lastOp' = "newRenderer"
    /\ NoOutput
    /\ UNCHANGED <<bufferVars, lastGet, cloneVars, histVars, maxClones,
                   cloneCountOverride, useSegmentation, frameBufferScale,
                   perfVars, particleVars, ctx, gestureVars, frameCount,
                   isProcessing, segmentationMask, inFlight, startedAt,
                   recVars>>

(* processFrame up to its first await: the early return, the frame
   counter, the frame skip, the isProcessing test and its setting. *)
processFrameUnguarded(manager, count, processing) ==
    IF ~ manager.enabled \/ ~ manager.ready
    THEN [frameCount |-> count, isProcessing |-> processing, starts |-> FALSE]
    ELSE IF (count + 1) % frameSkip # 0
    THEN [frameCount |-> count + 1, isProcessing |-> processing,
          starts |-> FALSE]
    ELSE [frameCount |-> count + 1, isProcessing |-> TRUE, starts |-> TRUE]

processFrame(manager, count, processing) ==
    IF ~ manager.enabled \/ ~ manager.ready
    THEN [frameCount |-> count, isProcessing |-> processing, starts |-> FALSE]
    ELSE IF (count + 1) % frameSkip # 0
    THEN [frameCount |-> count + 1, isProcessing |-> processing,
          starts |-> FALSE]
    ELSE IF processing
    THEN [frameCount |-> count + 1, isProcessing |-> processing,
          starts |-> FALSE]
    ELSE [frameCount |-> count + 1, isProcessing |-> TRUE, starts |-> TRUE]

(* performance.now() between two frames of the render loop, in ms. *)
FrameTime == 16

(* render with a segmentation manager: processFrame is called without
   await, so render goes on to its drawing as soon as processFrame reaches
   its own await. *)
RenderSegmenting(deltaTime, videoReady) ==
    /\ segmentationManager
    /\ RenderBody(deltaTime, videoReady, FALSE)
    /\ \E frame \in {processFrame(segManager, frameCount, isProcessing)} :
          /\ frameCount' = frame.frameCount
          /\ isProcessing' = frame.isProcessing
          /\ inFlight' = IF frame.starts THEN inFlight + 1 ELSE inFlight
          /\ startedAt' = IF frame.starts THEN frame.frameCount ELSE startedAt
    /\ UNCHANGED <<particleVars, gestureVars, segManager, segmentationMask,
                   recVars>>

(* What the end of an inference does to isProcessing: the code after the
   await and the catch block of processFrame, and onResults.
   outcome: "mask", "noMask" (a result without segmentationMask) or
   "error" (the awaited promise rejects). *)
afterInference(kind, outcome, processing) ==
    IF kind = "bodypix" THEN FALSE
    ELSE IF outcome = "noMask" THEN processing
    ELSE FALSE

Outcomes == {"mask", "noMask", "error"}

InferenceCompletes(outcome) ==
    /\ inFlight > 0
    /\ inFlight' = inFlight - 1
    /\ isProcessing' = afterInference(segManager.kind, outcome, isProcessing)
    /\ segmentationMask' =
          IF outcome = "mask" \/ (outcome = "noMask" /\ segManager.kind = "bodypix")
          THEN TRUE ELSE segmentationMask
    /\ lastOp' = "inference"
    /\ cmd' = [NoCmd EXCEPT !.kind = outcome]
    /\ NoOutput
    /\ UNCHANGED <<bufferVars, lastGet, cloneVars, elapsed, fixedDt, appVars,
                   particleVars, ctx, gestureVars, segManager, frameCount,
                   startedAt, recVars>>

NextInference ==
    \/ \E kind \in SegmentationKinds : \E ready \in BOOLEAN :
          NewSegmentationManager(kind, ready)
    \/ \E videoReady \in BOOLEAN : RenderSegmenting(FrameTime, videoReady)
    \/ \E outcome \in Outcomes : InferenceCompletes(outcome)

SpecInference == Init /\ [][NextInference]_vars

(* Every inference in flight completes. *)
SpecInferenceFair ==
    SpecInference /\ WF_vars(\E outcome \in Outcomes : InferenceCompletes(outcome))

(* VideoRecorder.  A MediaRecorder is "recording" from its start(),
   "stopping" once it is inactive with its stop event still queued (after
   stop(), or when it ends by itself), and "stopped" when the event has
   been delivered. *)
engineVars == <<bufferVars, lastGet, cloneVars, histVars, appVars,
                particleVars, ctx>>

(* start(): ignored while isRecording; else a new MediaRecorder, an empty
   chunk list, isRecording = true and a new duration timer. *)
RecorderStart ==
    /\ IF isRecording
       THEN /\ lastOp' = "startIgnored"
            /\ UNCHANGED recVars
       ELSE /\ Len(recorders) < MaxRecordings
            /\ recorders' = Append(recorders,
                                   [state |-> "recording", stopCalls |-> 0])
            /\ mediaRecorder' = Len(recorders) + 1
            /\ recordedChunks' = <<>>
            /\ isRecording' = TRUE
            /\ timers' = timers \cup {Len(recorders) + 1}
            /\ lastOp' = "start"
            /\ UNCHANGED reported
    /\ NoOutput
    /\ UNCHANGED <<engineVars, gestureVars, segVars>>

(* MediaRecorder.stop(): one more invocation; a recording recorder becomes
   inactive and queues its stop event, an inactive one stays as it is. *)
stopInvoked(recorder) ==
    [state |-> IF recorder.state = "recording" THEN "stopping"
               ELSE recorder.state,
     stopCalls |-> recorder.stopCalls + 1]

(* stop(): ignored unless isRecording; else this.mediaRecorder.stop(). *)
RecorderStop ==
    /\ IF ~ isRecording
       THEN /\ lastOp' = "stopIgnored"
            /\ UNCHANGED recVars
       ELSE /\ recorders[mediaRecorder].stopCalls < MaxStopCalls
            /\ recorders' = [recorders EXCEPT
                                ![mediaRecorder] = stopInvoked(@)]
            /\ lastOp' = "stop"
            /\ UNCHANGED <<mediaRecorder, recordedChunks, isRecording,
                           timers, reported>>
    /\ NoOutput
    /\ UNCHANGED <<engineVars, gestureVars, segVars>>

(* The MediaRecorder ends by itself (its stream ended). *)
RecorderEnds(r) ==
    /\ recorders[r].state = "recording"
    /\ recorders' = [recorders EXCEPT ![r].state = "stopping"]
    /\ lastOp' = "ended"
    /\ NoOutput
    /\ UNCHANGED <<mediaRecorder, recordedChunks, isRecording, timers,
                   reported, engineVars, gestureVars, segVars>>

(* ondataavailable of recorder r with a non-empty blob. *)
DataAvailable(r) ==
    /\ recorders[r].state \in {"recording", "stopping"}
    /\ Len(recordedChunks) < MaxChunks
    /\ recordedChunks' = Append(recordedChunks, r)
    /\ lastOp' = "data"
    /\ NoOutput
    /\ UNCHANGED <<mediaRecorder, recorders, isRecording, timers, reported,
                   engineVars, gestureVars, segVars>>

(* onstop of recorder r: isRecording = false. *)
StopEvent(r) ==
    /\ recorders[r].state = "stopping"
    /\ recorders' = [recorders EXCEPT ![r].state = "stopped"]
    /\ isRecording' = FALSE
    /\ lastOp' = "stopEvent"
    /\ NoOutput
    /\ UNCHANGED <<mediaRecorder, recordedChunks, timers, reported,
                   engineVars, gestureVars, segVars>>

(* One firing of the interval callback of the timer started for recording
   t: it clears itself when isRecording is false, else it reports
   Date.now() - startTime of the current recording. *)
timerFired(running, t, active) ==
    IF ~ active THEN running \ {t} ELSE running

TimerFires(t) ==
    /\ t \in timers
    /\ timers' = timerFired(timers, t, isRecording)
    /\ reported' = IF isRecording
                   THEN [timer |-> t, recording |-> mediaRecorder]
                   ELSE reported
    /\ lastOp' = "timer"
    /\ NoOutput
    /\ UNCHANGED <<mediaRecorder, recorders, recordedChunks, isRecording,
                   engineVars, gestureVars, segVars>>

RecorderIds == 1..Len(recorders)

NextRecorder ==
    \/ RecorderStart
    \/ RecorderStop
    \/ \E r \in RecorderIds : RecorderEnds(r)
    \/ \E r \in RecorderIds : DataAvailable(r)
    \/ \E r \in RecorderIds : StopEvent(r)
    \/ \E t \in timers : TimerFires(t)

SpecRecorder == Init /\ [][NextRecorder]_vars

(* Fixed-rate runs: every tick has the same positive deltaTime. *)
InitAnim == InitBase /\ fixedDt \in FixedDeltaTimes

NextAnim ==
    \/ \E count \in 1..MaxCount : SpawnClones(count)
    \/ DismissClones
    \/ FixedTick

SpecAnim == InitAnim /\ [][NextAnim]_vars

(* One batch, spawned once and dismissed once, under ticks of one fixed
   positive deltaTime that keep arriving. *)
SpawnOnce(count) ==
    /\ cmd.kind = "none"
    /\ SpawnClones(count)

DismissOnce ==
    /\ cmd.kind = "spawn"
    /\ DismissClones

NextDrain ==
    \/ \E count \in 1..MaxCount : SpawnOnce(count)
    \/ DismissOnce
    \/ FixedTick

SpecDrain == InitAnim /\ [][NextDrain]_vars /\ WF_vars(FixedTick)

----------------------------------------------------------------------------
(* C1: after any sequence of addFrame calls the buffer holds at most
   frameBufferSize snapshots, and they are the most recent
   min(n, frameBufferSize) pushed frames in push order (the oldest is the
   one evicted). *)
C1_BufferBoundedFifo ==
    /\ Len(frameBuffer) <= frameBufferSize
    /\ Len(frameBuffer) = Min(pushed, frameBufferSize)
    /\ \A k \in 1..Len(frameBuffer) :
           frameBuffer[k] = pushed - Len(frameBuffer) + k

C1_Witness ==
    /\ pushed = frameBufferSize + 2
    /\ Len(frameBuffer) = frameBufferSize
    /\ frameBuffer[1] = 3

(* C2: for n >= 1 buffered frames and 0 <= d < n, getDelayedFrame(d) is the
   snapshot exactly d frames behind the newest one (d = 0: the newest). *)
C2_DelayedFrameIsDBehind ==
    (lastOp = "get" /\ lastGet.delay < Len(frameBuffer))
        => lastGet.frame = frameBuffer[Len(frameBuffer) - lastGet.delay]

(* C3: with a non-empty buffer and a delay larger than the buffer depth,
   getDelayedFrame returns the oldest snapshot still held; whatever the
   delay, a returned frame is one the buffer still holds. *)
C3_ClampToOldest ==
    lastOp = "get" =>
        /\ (Len(frameBuffer) >= 1 /\ lastGet.delay > Len(frameBuffer))
               => lastGet.frame = frameBuffer[1]
        /\ lastGet.frame \in Range(frameBuffer) \cup {NoFrame}

C3_Witness ==
    /\ lastOp = "get"
    /\ pushed > frameBufferSize
    /\ lastGet.delay > Len(frameBuffer)
    /\ lastGet.frame = frameBuffer[1]
    /\ lastGet.frame = pushed - frameBufferSize + 1

----------------------------------------------------------------------------
(* What one step did to the clone that had identity id before it.  A spawn
   or clear step discards every stored clone object (a spawn then stores
   new ones, reusing the ids); any other step keeps the objects it keeps
   under their ids. *)
IsTickStep == lastOp' \in {"tick", "render"}
BatchDropped == lastOp' \in {"spawn", "clear"}
Survives(id) == ~ BatchDropped /\ id \in CloneIds(clones')

DrawStates == {"render", "draw"}

(* C4, as claimed: while the buffer holds fewer than `delay` frames,
   getDelayedFrame(delay) is null and drawClone skips the clone, so no clone
   is drawn from a frame fewer than `delay` frames behind live. *)
C4_NoDataBeforeDelay ==
    lastOp \in DrawStates =>
        \A k \in 1..Len(drawn) :
            Len(frameBuffer) < drawn[k].delay
                => (drawn[k].skipped /\ drawn[k].frame = NoFrame)

(* C4, amended: with fewer than `delay` frames buffered, getDelayedFrame
   is null exactly when the buffer is empty, and drawClone then skips the
   clone; with a non-empty buffer it is the oldest frame held and the clone
   is drawn from it. *)
C4_NoDataOnlyWhenEmpty ==
    lastOp \in DrawStates =>
        \A k \in 1..Len(drawn) :
            Len(frameBuffer) < drawn[k].delay =>
                IF frameBuffer = <<>>
                THEN drawn[k].skipped /\ drawn[k].frame = NoFrame
                ELSE ~ drawn[k].skipped /\ drawn[k].frame = frameBuffer[1]

C4_Witness ==
    /\ lastOp = "render"
    /\ \E k \in 1..Len(drawn) :
           /\ Len(frameBuffer) < drawn[k].delay
           /\ ~ drawn[k].skipped
           /\ drawn[k].frame = frameBuffer[1]

C4_SkipReached ==
    /\ lastOp = "draw"
    /\ \E k \in 1..Len(drawn) : drawn[k].skipped

(* C5: spawnClones(_, _, count), count >= 1, stores exactly count clones,
   each 'spawning' with progress 0, spawnDelay = index * 300 ms and
   delay = cloneDelay + index; the delays of one batch are pairwise
   distinct. *)
C5_SpawnCreatesBatch ==
    lastOp = "spawn" =>
        /\ Len(clones) = cmd.count
        /\ \A k \in 1..Len(clones) :
               /\ clones[k].id = k - 1
               /\ clones[k].animationState = "spawning"
               /\ clones[k].animationProgress = 0
               /\ clones[k].spawnDelay = (k - 1) * 300
               /\ clones[k].delay = cloneDelay + (k - 1)
        /\ \A j, k \in 1..Len(clones) :
               j # k => clones[j].delay # clones[k].delay

C5_Witness ==
    /\ lastOp = "spawn"
    /\ cmd.count = 3
    /\ Len(clones) = 3
    /\ clones[1].spawnDelay = 0
    /\ clones[2].spawnDelay = 300
    /\ clones[3].spawnDelay = 600

(* C6: at a fixed positive tick deltaTime, once the ticks since the spawn
   add up to at least a clone's stagger plus the 1000 ms spawn duration,
   that clone is 'active' with progress 0, and stays so while no dismiss
   is called. *)
C6_ActiveAfterStaggerPlusSpawn ==
    cmd.kind = "spawn" =>
        \A id \in DOMAIN cmd.stagger :
            elapsed >= cmd.stagger[id] + SpawnDuration =>
                /\ id \in CloneIds(clones)
                /\ CloneById(clones, id).animationState = "active"
                /\ CloneById(clones, id).animationProgress = 0

(* C7: dismissClones puts every clone into 'dismissing' with progress 0 and
   stagger index * 300 ms; at a fixed positive tick deltaTime, once the
   ticks since the dismiss add up to at least the stagger plus the 800 ms
   dismiss duration, a clone that was Active has been removed. *)
C7_RemovedAfterStaggerPlusDismiss ==
    /\ lastOp = "dismiss" =>
           \A k \in 1..Len(clones) :
               /\ clones[k].animationState = "dismissing"
               /\ clones[k].animationProgress = 0
               /\ clones[k].spawnDelay = (k - 1) * 300
    /\ cmd.kind = "dismiss" =>
           \A id \in DOMAIN cmd.stagger :
               ( /\ cmd.from[id] = "active"
                 /\ elapsed >= cmd.stagger[id] + DismissDuration )
                   => id \notin CloneIds(clones)

(* The state changes the claim lists, each with the operation that makes
   it. *)
ListedChange(id) ==
    LET c == CloneById(clones, id)
        d == CloneById(clones', id)
    IN  \/ d.animationState = c.animationState
        \/ /\ c.animationState = "spawning" /\ d.animationState = "active"
           /\ IsTickStep
        \/ /\ c.animationState \in {"spawning", "active"}
           /\ d.animationState = "dismissing"
           /\ lastOp' = "dismiss"

ListedDeletion(id) ==
    /\ IsTickStep
    /\ CloneById(clones, id).animationState = "dismissing"

AllInOneState ==
    \A k \in 1..Len(clones) :
        /\ clones[k].animationState \in States
        /\ clones[k].animationProgress < ProgressOne

(* C8, as claimed: every stored clone is in one of the three states, and
   the only transitions are spawning->active (tick), spawning->dismissing
   and active->dismissing (dismissClones), dismissing->deleted (tick). *)
C8_OnlyListedTransitions ==
    [][ \A id \in CloneIds(clones) :
            IF Survives(id) THEN ListedChange(id) ELSE ListedDeletion(id) ]_vars

(* C8, amended: as claimed, except that spawnClones and clear also delete
   every stored clone, whatever its state.  A Dismissing clone is never
   moved to Spawning or Active, and no stored clone is ever seen with a
   completed progress: the tick in which a dismissal completes deletes the
   clone. *)
C8_Transitions ==
    /\ []AllInOneState
    /\ [][ \A id \in CloneIds(clones) :
               IF Survives(id) THEN ListedChange(id)
               ELSE BatchDropped \/ ListedDeletion(id) ]_vars

C8_Witness ==
    /\ lastOp = "tick"
    /\ cmd.kind = "dismiss"
    /\ cmd.count = 2
    /\ Len(clones) = 1
    /\ clones[1].animationState = "dismissing"

(* C9: animationProgress stays within [0,1]; over a tick with deltaTime >= 0
   it does not decrease while the clone keeps its animation state, does not
   change while the clone's stagger is still positive, and does not change
   while the clone is Active. *)
ProgressInRange ==
    \A k \in 1..Len(clones) :
        /\ clones[k].animationProgress >= 0
        /\ clones[k].animationProgress <= ProgressOne

ProgressStep(id) ==
    LET c == CloneById(clones, id)
        d == CloneById(clones', id)
    IN  /\ d.animationState = c.animationState
            => d.animationProgress >= c.animationProgress
        /\ c.spawnDelay > 0 => d.animationProgress = c.animationProgress
        /\ c.animationState = "active"
            => d.animationProgress = c.animationProgress

C9_ProgressMonotone ==
    /\ []ProgressInRange
    /\ [][ IsTickStep =>
               \A id \in CloneIds(clones) \cap CloneIds(clones') :
                   ProgressStep(id) ]_vars

C9_Witness ==
    /\ lastOp = "tick"
    /\ Len(clones) = 3
    /\ clones[1].animationState = "active"
    /\ clones[1].animationProgress = 0
    /\ clones[2].animationState = "spawning"
    /\ clones[2].animationProgress > 0
    /\ clones[3].animationState = "spawning"
    /\ clones[3].spawnDelay <= 0

(* C10: dismissClones on a collection whose clones are all Dismissing
   changes nothing: progress and remaining stagger of every clone are kept
   and no particle burst is queued. *)
AllDismissing ==
    /\ clones # <<>>
    /\ \A k \in 1..Len(clones) : clones[k].animationState = "dismissing"

C10_DismissIdempotent ==
    [][ (AllDismissing /\ lastOp' = "dismiss")
            => (clones' = clones /\ particlePositions' = particlePositions) ]_vars

----------------------------------------------------------------------------
(* C11: dismissClones on an empty collection leaves the collection empty
   and isActive as it was, queues no burst, and the render that follows it
   hands nothing to the particle system. *)
C11_DismissEmptyIsNoOp ==
    [][ /\ (lastOp' = "dismiss" /\ clones = <<>>)
            => (clones' = <<>> /\ isActive' = isActive
                /\ particlePositions' = <<>>)
        /\ (lastOp = "dismiss" /\ cmd.count = 0 /\ lastOp' = "render")
            => emitted' = <<>> ]_vars

C11_Witness ==
    /\ lastOp = "render"
    /\ cmd.kind = "dismiss"
    /\ cmd.count = 0
    /\ clones = <<>>
    /\ emitted = <<>>

(* C12: spawnClones over an existing batch replaces it: the collection is
   then exactly the requested number of new clones, ids from 0, all
   spawning with progress 0 and their own stagger; nothing accumulates. *)
C12_SpawnReplacesBatch ==
    (lastOp = "spawn" /\ replaced > 0) =>
        /\ Len(clones) = Max(cloneCountOf(cmd.count, maxClones), 0)
        /\ \A k \in 1..Len(clones) :
               /\ clones[k].id = k - 1
               /\ clones[k].animationState = "spawning"
               /\ clones[k].animationProgress = 0
               /\ clones[k].spawnDelay = (k - 1) * StaggerInterval

C12_Witness ==
    /\ lastOp = "spawn"
    /\ replaced = 3
    /\ Len(clones) = 1
    /\ clones[1].animationState = "spawning"

AnimationFields == {"animationState", "animationProgress", "spawnDelay"}

(* C15: id, x, y and delay of a clone are set by spawnClones and never
   changed afterwards: a tick or a dismissClones step changes at most
   animationState, animationProgress and spawnDelay of a clone it keeps. *)
C15_IdentityImmutable ==
    [][ \A id \in CloneIds(clones) : Survives(id) =>
            LET before == CloneById(clones, id)
                after == CloneById(clones', id)
            IN  /\ DOMAIN after = DOMAIN before
                /\ \A field \in DOMAIN before \ AnimationFields :
                       after[field] = before[field] ]_vars

C15_Witness ==
    /\ lastOp = "tick"
    /\ cmd.kind = "dismiss"
    /\ Len(clones) = 2
    /\ clones[1].animationState = "dismissing"
    /\ clones[1].animationProgress > 0
    /\ clones[1].delay = cloneDelay + clones[1].id
    /\ clones[1].x # clones[2].x

(* C13: after any spawnClones call the collection holds at most maxClones
   clones, also when the requested count is larger. *)
C13_CountClamped ==
    lastOp = "spawn" => Len(clones) <= maxClones

(* C14: spawnClones with a count of 0 or less either leaves the collection
   as it was or stores a fresh batch of 1 to maxClones clones; it never
   leaves the manager active with an emptied collection. *)
C14_NonPositiveCount ==
    [][ (lastOp' = "spawn" /\ cmd'.count <= 0) =>
            /\ \/ (clones' = clones /\ isActive' = isActive)
               \/ /\ Len(clones') \in 1..maxClones
                  /\ \A k \in 1..Len(clones') :
                         /\ clones'[k].id = k - 1
                         /\ clones'[k].animationState = "spawning"
                         /\ clones'[k].animationProgress = 0
            /\ ~ (isActive' /\ clones' = <<>>) ]_vars

----------------------------------------------------------------------------
(* A clone has started its spawn animation once a tick has advanced its
   progress (a positive tick leaves it above 0, or already active). *)
Started(c) == c.animationState = "active" \/ c.animationProgress > 0

(* What one tick may do to two clones i < j of the batch: j starts to
   advance only if i had started before this tick, j becomes active only
   if i was active before this tick, and j is not removed while i is
   still stored. *)
InSequenceStep ==
    \A i \in CloneIds(clones) : \A j \in CloneIds(clones) : i < j =>
        LET ci == CloneById(clones, i)
            cj == CloneById(clones, j)
        IN  IF j \in CloneIds(clones')
            THEN LET cj2 == CloneById(clones', j)
                 IN  /\ (cmd.kind = "spawn" /\ ~ Started(cj) /\ Started(cj2))
                         => Started(ci)
                     /\ (cj.animationState = "spawning"
                            /\ cj2.animationState = "active")
                         => ci.animationState = "active"
            ELSE FALSE

(* C16, as claimed: for any positive tick deltaTime, clone i starts to
   advance, becomes active, and (after dismissClones) is removed in a
   strictly earlier tick than clone j, for i < j of the same batch. *)
C16_InSequenceAnyTick ==
    [][ lastOp' = "tick" => InSequenceStep ]_vars

(* C16, amended: the same, for ticks no longer than the stagger interval. *)
C16_InSequenceShortTicks ==
    [][ (lastOp' = "tick" /\ fixedDt <= StaggerInterval) => InSequenceStep ]_vars

C16_Witness ==
    /\ fixedDt = StaggerInterval
    /\ lastOp = "tick"
    /\ cmd.kind = "spawn"
    /\ Len(clones) = 3
    /\ clones[1].animationState = "active"
    /\ clones[2].animationState = "spawning"
    /\ clones[3].animationState = "spawning"
    /\ clones[3].animationProgress > 0
    /\ clones[3].animationProgress < clones[2].animationProgress

C16_DismissWitness ==
    /\ fixedDt <= StaggerInterval
    /\ lastOp = "tick"
    /\ cmd.kind = "dismiss"
    /\ cmd.count = 3
    /\ CloneIds(clones) = {2}

----------------------------------------------------------------------------
(* C17: the population never exceeds the cap, and an emit that pushes it
   over the cap keeps the most recently emitted particles and drops exactly
   the oldest: the result is the tail of (old particles, then new ones). *)
C17_CapDropsOldest ==
    [][ /\ Len(particles') <= ParticleCap
        /\ lastOp' = "emit" =>
             LET kept == Min(cmd'.count, ParticleCap)
                 old == Len(particles') - kept
             IN  /\ Len(particles') = Min(Len(particles) + cmd'.count, ParticleCap)
                 /\ \A k \in 1..kept :
                        particles'[old + k].serial
                            = <<emitCalls', cmd'.count - kept + k>>
                 /\ \A k \in 1..old :
                        particles'[k] = particles[Len(particles) - old + k] ]_vars

C17_Witness ==
    /\ lastOp = "emit"
    /\ emitCalls = 2
    /\ cmd.count = 30
    /\ Len(particles) = ParticleCap
    /\ particles[1].serial = <<1, 81>>
    /\ particles[1].aged > 0
    /\ particles[ParticleCap].serial = <<2, 30>>

----------------------------------------------------------------------------
ParticleSerials(ps) == {ps[k].serial : k \in 1..Len(ps)}

ParticleBySerial(ps, serial) ==
    ps[CHOOSE k \in 1..Len(ps) : ps[k].serial = serial]

(* ceil(L * 1000 / deltaTime), maxLife being L * 1000. *)
RemovalBound(maxLife, deltaTime) == (maxLife + deltaTime - 1) \div deltaTime

(* C18: under update ticks of a fixed positive deltaTime, a particle's life
   never increases; while its delay is positive a tick neither moves nor
   ages it; a stored particle has life > 0 (it is removed in the tick that
   takes its life to 0 or below); and a particle with maxLife L is removed
   no later than ceil(L * 1000 / deltaTime) ticks after its delay ran out,
   so a stored particle has been aged by fewer ticks than that. *)
C18_LifeBounded ==
    [][ lastOp' = "particleUpdate" =>
          /\ \A serial \in ParticleSerials(particles') :
                LET before == ParticleBySerial(particles, serial)
                    after == ParticleBySerial(particles', serial)
                IN  /\ DblLeq(after.life, before.life)
                    /\ DblPositive(after.life)
                    /\ before.delay > 0 =>
                          /\ after.life = before.life
                          /\ after.x = before.x /\ after.y = before.y
                          /\ after.size = before.size
                    /\ after.aged < RemovalBound(after.maxLife, fixedDt)
          /\ ParticleSerials(particles') \subseteq ParticleSerials(particles)
      ]_vars

(* The same with one more tick allowed, which the rounding of life does
   not break. *)
C18_LifeMonotone ==
    [][ lastOp' = "particleUpdate" =>
          \A serial \in ParticleSerials(particles') :
                LET before == ParticleBySerial(particles, serial)
                    after == ParticleBySerial(particles', serial)
                IN  /\ DblLeq(after.life, before.life)
                    /\ DblPositive(after.life)
                    /\ before.delay > 0 =>
                          /\ after.life = before.life
                          /\ after.x = before.x /\ after.y = before.y
                          /\ after.size = before.size
                    /\ after.aged <= RemovalBound(after.maxLife, fixedDt)
      ]_vars

----------------------------------------------------------------------------
(* The bursts a spawn or dismiss step owes: one per clone of the
   collection it leaves, at that clone's position. *)
BurstsFor(cs, type) ==
    [k \in 1..Len(cs) |->
        [id |-> cs[k].id, x |-> cs[k].x, y |-> cs[k].y, type |-> type]]

IsPrefix(s, t) ==
    /\ Len(s) <= Len(t)
    /\ \A k \in 1..Len(s) : s[k] = t[k]

(* C19: each spawn command queues one 'spawn' burst per spawned clone and
   each dismiss command one 'dismiss' burst per dismissed clone, at the
   clone's position; a queued burst stays queued until a render hands it to
   emit, exactly once: a command never discards a burst still waiting, and
   a render emits exactly the waiting bursts and leaves none. *)
C19_EachBurstOnce ==
    [][ /\ lastOp' \in {"spawn", "dismiss"} =>
              \E first \in 0..Len(particlePositions') :
                  /\ SubSeq(particlePositions', first + 1,
                            Len(particlePositions'))
                        = BurstsFor(clones', IF lastOp' = "spawn"
                                             THEN "spawn" ELSE "dismiss")
                  /\ IsPrefix(particlePositions, particlePositions')
        /\ lastOp' = "render" =>
              (emitted' = particlePositions /\ particlePositions' = <<>>)
        /\ lastOp' \in {"tick", "draw", "dismissSkipped"} =>
              particlePositions' = particlePositions ]_vars

----------------------------------------------------------------------------
(* The place of each kind of step in a render tick. *)
StepRank(op) ==
    CASE op = "addFrame" -> 1
      [] op = "updateAnimations" -> 2
      [] op = "fillRect" -> 3
      [] op = "particleUpdate" -> 4
      [] op = "emit" -> 5
      [] op = "particleRender" -> 6
      [] op = "drawClone" -> 7
      [] op = "drawVideoFullScreen" -> 8

StepsOf(op) == {k \in 1..Len(trace) : trace[k].op = op}

(* C20: a render tick runs, in this order, exactly one capture into the
   buffer, the animation advance, the clear of the surface, the particle
   update and the particle render (all of these whether or not a clone
   exists), every clone draw, and last the live draw; no clone is drawn
   after the live frame, and the live frame is drawn with nothing saved,
   no clip, no transform and full opacity. *)
C20_RenderOrder ==
    lastOp = "render" =>
        /\ \A k \in 1..Len(trace) : \A l \in 1..Len(trace) :
               k < l => StepRank(trace[k].op) <= StepRank(trace[l].op)
        /\ \A op \in {"addFrame", "updateAnimations", "fillRect",
                      "particleUpdate", "particleRender"} :
               Cardinality(StepsOf(op)) = 1
        /\ trace[1].op = "addFrame"
        /\ trace[1].arg = pushed
        /\ frameBuffer[Len(frameBuffer)] = pushed
        /\ Cardinality(StepsOf("drawClone"))
               = Cardinality({k \in 1..Len(drawn) : ~ drawn[k].skipped})
        /\ (clones # <<>> /\ isActive) => Len(drawn) = Len(clones)
        /\ Cardinality(StepsOf("drawVideoFullScreen")) <= 1
        /\ \A k \in StepsOf("drawVideoFullScreen") :
               /\ k = Len(trace)
               /\ trace[k].globalAlpha = ProgressOne
               /\ trace[k].clip = "none"
               /\ trace[k].transform = "identity"
               /\ trace[k].saved = 0

C20_Witness ==
    /\ lastOp = "render"
    /\ Cardinality(StepsOf("drawClone")) = 2
    /\ Cardinality(StepsOf("emit")) = 2
    /\ trace[Len(trace)].op = "drawVideoFullScreen"
    /\ \E k \in StepsOf("drawClone") :
           trace[k].globalAlpha < ProgressOne /\ trace[k].saved = 1

C20_NoCloneWitness ==
    /\ lastOp = "render"
    /\ clones = <<>>
    /\ Len(trace) = 6
    /\ trace[6].op = "drawVideoFullScreen"

----------------------------------------------------------------------------
(* C21, as claimed: in a render tick that finds the live source without a
   valid frame (videoWidth 0), neither a clone nor the live foreground is
   drawn and render ends without an exception.  render gates only
   drawVideoFullScreen on videoWidth; drawClones is gated on
   hasActiveClones() and each drawClone on its delayed frame, which addFrame
   has supplied at the top of the same tick. *)
C21_NotReadySkipsDrawing ==
    (lastOp = "render" /\ videoWidth = 0) =>
        /\ StepsOf("drawClone") = {}
        /\ StepsOf("drawVideoFullScreen") = {}
        /\ ~ threw

(* The live draw alone is skipped on such a tick. *)
C21_LiveDrawSkipped ==
    (lastOp = "render" /\ videoWidth = 0) =>
        (StepsOf("drawVideoFullScreen") = {} /\ ~ threw)

C21_CloneDrawnWitness ==
    /\ lastOp = "render"
    /\ videoWidth = 0
    /\ Cardinality(StepsOf("drawClone")) = 2

----------------------------------------------------------------------------
(* C22: drawClones and render leave the canvas context exactly as they
   found it (opacity, transform, clip and the save stack), every clone is
   drawn with exactly one save outstanding and under its own opacity,
   position and clip, and a drawClone that returns early for want of a
   frame touches nothing. *)
C22_DrawCloneBalanced ==
    [][lastOp' \in {"draw", "render"} =>
          /\ ctx' = ctx
          /\ \A k \in 1..Len(trace') :
                 trace'[k].op = "drawClone" =>
                     /\ trace'[k].saved = Len(ctx.stack) + 1
                     /\ \E i \in 1..Len(clones') :
                            /\ clones'[i].id = trace'[k].arg
                            /\ trace'[k].globalAlpha = CloneOpacity(clones'[i])
                            /\ trace'[k].clip = CloneClip(clones'[i])
                            /\ trace'[k].transform.x = clones'[i].x
          /\ (\A i \in 1..Len(drawn') : drawn'[i].skipped) =>
                 StepsOf("drawClone")' = {}]_vars

C22_Witness ==
    /\ lastOp \in {"draw", "render"}
    /\ ctx = CtxInit
    /\ \E k \in StepsOf("drawClone") : \E l \in StepsOf("drawClone") :
           /\ k < l
           /\ trace[k].globalAlpha # trace[l].globalAlpha
           /\ trace[k].clip # trace[l].clip

C22_EarlyReturnWitness ==
    /\ lastOp = "draw"
    /\ Len(drawn) = 2
    /\ \A i \in 1..Len(drawn) : drawn[i].skipped
    /\ ctx = CtxInit

----------------------------------------------------------------------------
(* C23, as claimed: a failure of the segmentation collaborator while a
   clone's mask is requested stays inside render: render ends normally,
   every clone of an active batch is drawn and, when the video is ready,
   so is the live foreground. *)
C23_MaskFailureContained ==
    lastOp = "render" =>
        /\ ~ threw
        /\ isActive => Cardinality(StepsOf("drawClone")) = Len(clones)
        /\ videoWidth # 0 => StepsOf("drawVideoFullScreen") # {}

(* What the code does instead: the exception leaves render with no clone
   and no live frame drawn, the tick's capture, animation advance and
   particle hand-off already made, and the canvas context untouched. *)
C23_MaskFailureAborts ==
    (lastOp = "render" /\ threw) =>
        /\ useSegmentation /\ segmentationManager
        /\ StepsOf("drawClone") = {}
        /\ StepsOf("drawVideoFullScreen") = {}
        /\ trace[Len(trace)].op = "particleRender"
        /\ frameBuffer[Len(frameBuffer)] = pushed
        /\ ctx = CtxInit

C23_ThrownWitness ==
    /\ lastOp = "render"
    /\ threw
    /\ Len(clones) = 2
    /\ videoWidth # 0

----------------------------------------------------------------------------
(* C24, as claimed: right after clear or destroy, whatever was going on,
   there is no clone, isActive is false, no burst is pending and the
   particle system holds no particle. *)
C24_ClearDropsAll ==
    lastOp \in {"clear", "destroy"} =>
        /\ clones = <<>>
        /\ ~ isActive
        /\ particlePositions = <<>>
        /\ particles = <<>>

(* The clone manager's own state is dropped at once (the frame buffer
   with it), and ParticleSystem.clear() empties the particle system. *)
C24_CloneStateDropped ==
    /\ lastOp \in {"clear", "destroy"} =>
           /\ clones = <<>>
           /\ ~ isActive
           /\ particlePositions = <<>>
           /\ frameBuffer = <<>>
    /\ lastOp = "particleClear" => particles = <<>>

C24_ParticlesSurviveWitness ==
    /\ lastOp = "destroy"
    /\ clones = <<>>
    /\ Len(particles) = 2 * BurstCount
    /\ emitCalls = 2
    /\ \E k \in 1..Len(particles) : particles[k].aged > 0

----------------------------------------------------------------------------
(* C25, as claimed: the buffer never holds more snapshots than the capacity
   in force, the base capacity scaled by the frame-buffer scale last set,
   from the moment the scale is lowered. *)
C25_ShrinkDiscards ==
    Len(frameBuffer) <= (frameBufferSize * frameBufferScale) \div 100

(* What holds: the buffer is bounded by the fixed capacity of 30, whatever
   scale is set, and setting the scale leaves the buffer as it was. *)
C25_ScaleIgnored ==
    /\ Len(frameBuffer) <= frameBufferSize
    /\ frameBufferScale \in 25..100

C25_FullAtHalfScaleWitness ==
    /\ lastOp = "setFrameBufferScale"
    /\ frameBufferScale = 50
    /\ Len(frameBuffer) = frameBufferSize

----------------------------------------------------------------------------
(* C29, as claimed: when start-up has completed, the clone manager's
   maxClones is the tier's (or the user's override), its frame-buffer scale
   is the tier's, and its useSegmentation is the tier's
   segmentationEnabled. *)
C29_SettingsInEffect ==
    lastOp = "appInit" =>
        /\ maxClones = (IF cloneCountOverride = 0 THEN settings.maxClones
                        ELSE cloneCountOverride)
        /\ frameBufferScale = settings.frameBufferScale
        /\ useSegmentation = settings.segmentationEnabled

(* What init does apply: the clone limit and the scale.  useSegmentation
   keeps the constructor's false. *)
C29_LimitAndScaleInEffect ==
    lastOp = "appInit" =>
        /\ maxClones = (IF cloneCountOverride = 0 THEN settings.maxClones
                        ELSE cloneCountOverride)
        /\ frameBufferScale = settings.frameBufferScale
        /\ ~ useSegmentation

C29_StartedWitness ==
    /\ lastOp = "appInit"
    /\ isInitialized
    /\ performanceTier = "medium"
    /\ cloneCountOverride = 0
    /\ maxClones = 3
    /\ settings.segmentationEnabled

----------------------------------------------------------------------------
(* The settings that belong to a tier. *)
SettingsOfTier(tier) ==
    CASE tier = "low" -> LowEndSettings
      [] tier = "medium" -> MediumSettings
      [] tier = "high" -> HighSettings

(* C30: determinePerformanceTier(fps) stores tier low with maxClones 1
   below 20 FPS, medium with 3 from 20 up to but not including 35, high
   with 7 from 35 on; and the stored tier and settings always belong
   together, after monitorRuntime as well. *)
C30_TierOfFps ==
    /\ performanceTier \in {"low", "medium", "high"}
    /\ settings = SettingsOfTier(performanceTier)
    /\ lastOp \in {"determineTier", "appInit"} =>
           /\ cmd.count < 20 =>
                  performanceTier = "low" /\ settings.maxClones = 1
           /\ (cmd.count >= 20 /\ cmd.count < 35) =>
                  performanceTier = "medium" /\ settings.maxClones = 3
           /\ cmd.count >= 35 =>
                  performanceTier = "high" /\ settings.maxClones = 7

C30_Witness ==
    /\ lastOp = "determineTier"
    /\ cmd.count = 34
    /\ performanceTier = "medium"
    /\ settings.maxClones = 3

C30_BoundaryWitness ==
    /\ lastOp = "determineTier"
    /\ cmd.count = 35
    /\ performanceTier = "high"

----------------------------------------------------------------------------
(* Progress values on a grid of twentieths, 0 and 1 included. *)
ProgressSamples == {(k * ProgressOne) \div 20 : k \in 0..20}

SpawningAt(c, progress) ==
    [c EXCEPT !.animationState = "spawning", !.animationProgress = progress]

(* C27: every Spawning clone has a progress in [0,1) and is drawn with an
   opacity in [0,1] and a clip window from 1-progress to exactly 1; the
   opacity does not decrease as progress grows (against every grid value
   and against every other Spawning clone), and it is already 1 at
   progress 1/2. *)
C27_SpawnReveal ==
    /\ \A i \in 1..Len(clones) :
           clones[i].animationState = "spawning" =>
               /\ clones[i].animationProgress >= 0
               /\ clones[i].animationProgress < ProgressOne
               /\ CloneOpacity(clones[i]) >= 0
               /\ CloneOpacity(clones[i]) <= ProgressOne
               /\ CloneClip(clones[i]).clipY
                      = ProgressOne - clones[i].animationProgress
               /\ CloneClip(clones[i]).clipY + CloneClip(clones[i]).clipHeight
                      = ProgressOne
               /\ 2 * clones[i].animationProgress >= ProgressOne =>
                      CloneOpacity(clones[i]) = ProgressOne
               /\ \A q \in ProgressSamples :
                      /\ q <= clones[i].animationProgress =>
                             CloneOpacity(SpawningAt(clones[i], q))
                                 <= CloneOpacity(clones[i])
                      /\ q >= clones[i].animationProgress =>
                             CloneOpacity(SpawningAt(clones[i], q))
                                 >= CloneOpacity(clones[i])
               /\ \A j \in 1..Len(clones) :
                      (clones[j].animationState = "spawning"
                       /\ clones[j].animationProgress
                              <= clones[i].animationProgress) =>
                          CloneOpacity(clones[j]) <= CloneOpacity(clones[i])
    /\ \A k \in StepsOf("drawClone") : \A i \in 1..Len(clones) :
           (clones[i].id = trace[k].arg
            /\ clones[i].animationState = "spawning") =>
               /\ trace[k].globalAlpha = CloneOpacity(clones[i])
               /\ trace[k].globalAlpha \in 0..ProgressOne
               /\ trace[k].clip.clipY + trace[k].clip.clipHeight = ProgressOne

C27_Witness ==
    /\ lastOp = "render"
    /\ \E k \in StepsOf("drawClone") : \E i \in 1..Len(clones) :
           /\ clones[i].id = trace[k].arg
           /\ clones[i].animationState = "spawning"
           /\ clones[i].animationProgress < ProgressOne
           /\ trace[k].globalAlpha = ProgressOne
    /\ \E k \in StepsOf("drawClone") : \E i \in 1..Len(clones) :
           /\ clones[i].id = trace[k].arg
           /\ clones[i].animationState = "spawning"
           /\ trace[k].globalAlpha > 0
           /\ trace[k].globalAlpha < ProgressOne
           /\ trace[k].clip.clipHeight = clones[i].animationProgress

----------------------------------------------------------------------------
(* C28, as claimed: an Active clone is drawn with an opacity strictly
   below 1 and a scale strictly below 1 (scale in thousandths). *)
C28_ActiveAttenuated ==
    \A k \in StepsOf("drawClone") : \A i \in 1..Len(clones) :
        (clones[i].id = trace[k].arg /\ clones[i].animationState = "active") =>
            /\ trace[k].globalAlpha < ProgressOne
            /\ trace[k].transform.scale < 1000

(* What the code draws: full opacity, at 0.6 of the live frame's size. *)
C28_ActiveOpaqueReduced ==
    \A k \in StepsOf("drawClone") : \A i \in 1..Len(clones) :
        (clones[i].id = trace[k].arg /\ clones[i].animationState = "active") =>
            /\ trace[k].globalAlpha = ProgressOne
            /\ trace[k].transform.scale = 600

C28_ActiveDrawnWitness ==
    /\ lastOp = "render"
    /\ \E k \in StepsOf("drawClone") : \E i \in 1..Len(clones) :
           clones[i].id = trace[k].arg /\ clones[i].animationState = "active"

----------------------------------------------------------------------------
(* Every pair of the batch's positions is at least minDistance apart. *)
Separated ==
    \A i \in 1..Len(clones) : \A j \in 1..Len(clones) :
        i # j => Dist2(clones[i], clones[j]) >= minDistance * minDistance

(* C26: spawnClones with count >= 1 gets exactly count positions; the
   separation loop ends within maxIterations passes, and what it returns
   is pairwise separated unless the cap was reached; a ring of three is
   separated as drawn and is returned without a push, each position on
   its ring radius of 150 - 20 .. 150 + 20. *)
C26_Placement ==
    (lastOp = "spawn" /\ cmd.count >= 1) =>
        /\ Len(clones) = cmd.count
        /\ Len(particlePositions) = cmd.count
        /\ iterations \in 0..maxIterations
        /\ Separated \/ iterations = maxIterations
        /\ cmd.count = 3 =>
               /\ iterations = 0
               /\ Separated
               /\ \A i \in 1..3 : \E center \in Centers :
                      \E offset \in (0 - 20)..20 :
                          /\ clones[i].x = RingPosition(center, 3, i - 1, offset).x
                          /\ clones[i].y = RingPosition(center, 3, i - 1, offset).y

C26_Witness ==
    /\ lastOp = "spawn"
    /\ iterations > 0
    /\ iterations < maxIterations
    /\ Separated

C26_CapWitness ==
    /\ lastOp = "spawn"
    /\ iterations = maxIterations
    /\ ~ Separated

C26_RingOfThreeWitness ==
    /\ lastOp = "spawn"
    /\ cmd.count = 3
    /\ iterations = 0
    /\ clones[1].x = 640 + 130

----------------------------------------------------------------------------
(* C31: over the 32 finger states the classifier reports spawn exactly
   for index and middle up with ring and pinky down, dismiss exactly for
   all five down, nothing otherwise and never both; a callback with spawn
   runs the app's spawnClones, one with dismiss its dismissClones. *)
IsPeaceSign(fingers) ==
    fingers.index /\ fingers.middle /\ ~ fingers.ring /\ ~ fingers.pinky

IsFist(fingers) == fingers = AllDown

C31_ThumbUpPeaceWitness ==
    /\ gesture.fired = "spawn"
    /\ gesture.fingers.thumb
    /\ clones # <<>>

----------------------------------------------------------------------------
(* C32: the callback fires only on a result that ends a run of consecutive
   results of one gesture spanning at least holdDuration; two consecutive
   callbacks are at least cooldownDuration apart; a result inside the
   cooldown neither fires the callback nor starts hold tracking. *)
InCooldown ==
    /\ firedAt # <<>>
    /\ now - firedAt[Len(firedAt)] < cooldownDuration

C32_HoldAndCooldown ==
    /\ gesture.fired # "null" =>
          /\ held.type = gesture.fired
          /\ now - held.since >= holdDuration
    /\ \A k \in 1..(Len(firedAt) - 1) :
          firedAt[k + 1] - firedAt[k] >= cooldownDuration
    /\ InCooldown =>
          /\ currentGestureType = "null"
          /\ currentGestureStart = NoStart
          /\ now > firedAt[Len(firedAt)] => gesture.fired = "null"

C32_Witness ==
    /\ Len(firedAt) = 2
    /\ gesture.fired = "dismiss"
    /\ firedAt[2] - firedAt[1] = cooldownDuration + holdDuration

C32_CooldownResultWitness ==
    /\ InCooldown
    /\ now - firedAt[Len(firedAt)] = cooldownDuration - 1
    /\ gesture.type = "spawn"
    /\ held.type = "spawn"

C32_ShortHoldWitness ==
    /\ firedAt = <<>>
    /\ held.type = "spawn"
    /\ now - held.since = holdDuration - 1
    /\ currentGestureType = "spawn"

----------------------------------------------------------------------------
(* C33: at most one segmentation inference is in flight; processFrame
   starts one only when isProcessing is false and only on every
   frameSkip-th eligible call; render completes without waiting for it. *)
C33_OneInFlight ==
    /\ inFlight <= 1
    /\ inFlight = 1 => isProcessing
    /\ startedAt % frameSkip = 0
    /\ startedAt <= frameCount
    /\ lastOp = "render" => (trace # <<>> /\ ~ threw)

C33_Witness ==
    /\ lastOp = "render"
    /\ inFlight = 1
    /\ startedAt = frameCount
    /\ frameCount = 2 * frameSkip
    /\ trace # <<>>

C33_BusySkipWitness ==
    /\ lastOp = "render"
    /\ inFlight = 1
    /\ frameCount = 2 * frameSkip
    /\ startedAt = frameSkip

----------------------------------------------------------------------------
(* C34, as claimed: whenever an inference started by processFrame
   completes, with a mask, with a result without a mask or with an error,
   isProcessing is eventually false again. *)
C34_NeverStalls == isProcessing ~> ~ isProcessing

(* The same for the BodyPix manager of segmentation.js alone, and for the
   MediaPipe manager when the result carries a mask or the send fails. *)
C34_BodyPixRecovers ==
    (isProcessing /\ segManager.kind = "bodypix") ~> ~ isProcessing

C34_ResetUnlessNoMask ==
    (lastOp = "inference" /\ isProcessing) =>
        (segManager.kind = "mediapipe" /\ cmd.kind = "noMask")

C34_StalledWitness ==
    /\ segManager.kind = "mediapipe"
    /\ lastOp = "render"
    /\ inFlight = 0
    /\ isProcessing
    /\ frameCount >= startedAt + 2 * frameSkip

----------------------------------------------------------------------------
(* C35, as claimed: with the override at 0 (auto), a spawn gesture after
   start-up spawns exactly the performance tier's maxClones clones,
   whatever the override control went through before. *)
C35_AutoSpawnsTierMax ==
    (lastOp = "spawn" /\ isInitialized /\ cloneCountOverride = 0) =>
        Len(clones) = settings.maxClones

(* What holds: the gesture spawns the override, or else the clone
   manager's maxClones, which is the tier's value or the last non-zero
   override, whichever was written last. *)
C35_SpawnsManagerMax ==
    (lastOp = "spawn" /\ isInitialized) =>
        Len(clones) = (IF cloneCountOverride = 0 THEN maxClones
                       ELSE cloneCountOverride)

C35_StaleOverrideWitness ==
    /\ lastOp = "spawn"
    /\ isInitialized
    /\ cloneCountOverride = 0
    /\ settings.maxClones = 7
    /\ Len(clones) = 2

----------------------------------------------------------------------------
(* C36, as claimed: at most one recording is active at a time, a start()
   while recording and a stop() while not recording change nothing, and
   MediaRecorder.stop() is invoked at most once on each recorder. *)
ActiveRecorders == {r \in RecorderIds : recorders[r].state = "recording"}

C36_OneStopPerRecording ==
    /\ Cardinality(ActiveRecorders) <= 1
    /\ \A r \in RecorderIds : recorders[r].stopCalls <= 1

(* What holds: one active recorder at most, and it is the current one;
   the ignored calls leave the recorder, the chunks and the timers alone;
   a recorder takes one stop() per stop() call made before its event. *)
C36_OneActiveRecorder ==
    /\ Cardinality(ActiveRecorders) <= 1
    /\ ActiveRecorders \subseteq {mediaRecorder}
    /\ ActiveRecorders # {} => isRecording
    /\ \A k \in 1..Len(recordedChunks) : recordedChunks[k] = mediaRecorder

C36_MisorderedAbsorbed ==
    [][lastOp' \in {"startIgnored", "stopIgnored"} => UNCHANGED recVars]_vars

C36_StoppedTwiceWitness ==
    /\ lastOp = "stop"
    /\ isRecording
    /\ recorders[mediaRecorder].state = "stopping"
    /\ recorders[mediaRecorder].stopCalls = 2

C36_StartIgnoredWitness ==
    /\ lastOp = "startIgnored"
    /\ recordedChunks # <<>>

----------------------------------------------------------------------------
(* C37: once dismissClones has been called, ticks of positive deltaTime
   keep arriving and no further command is issued, the collection becomes
   empty and isActive false, and hasActiveClones() is false from then on. *)
C37_DismissDrains ==
    (cmd.kind = "dismiss") ~> [](clones = <<>> /\ ~ isActive /\ ~ hasActiveClones)

C37_Witness ==
    /\ cmd.kind = "dismiss"
    /\ cmd.count = 2
    /\ lastOp = "tick"
    /\ clones = <<>>
    /\ ~ isActive

----------------------------------------------------------------------------
(* C38, as claimed: dismissClones leaves no clone more visible than it
   was: the opacity and the reveal height a draw derives right after the
   command are no greater than those a draw derived right before it. *)
C38_DismissNeverReveals ==
    [][lastOp' = "dismiss" =>
          \A i \in 1..Len(clones) :
              /\ CloneOpacity(clones'[i]) <= CloneOpacity(clones[i])
              /\ CloneClip(clones'[i]).clipHeight
                     <= CloneClip(clones[i]).clipHeight]_vars

(* What holds: an Active clone is not made more visible; every clone is
   at full opacity and full height right after the command. *)
C38_DismissShowsInFull ==
    [][lastOp' = "dismiss" =>
          \A i \in 1..Len(clones) :
              /\ CloneOpacity(clones'[i]) = ProgressOne
              /\ CloneClip(clones'[i]).clipHeight = ProgressOne
              /\ clones[i].animationState = "active" =>
                     CloneOpacity(clones'[i]) <= CloneOpacity(clones[i])]_vars

C38_HiddenCloneDismissedWitness ==
    /\ lastOp = "dismiss"
    /\ Len(clones) = 2
    /\ cmd.from[1] = "spawning"
    /\ CloneOpacity(clones[2]) = ProgressOne

----------------------------------------------------------------------------
(* C39, as claimed: at most one duration timer is running at any time,
   and a timer never reports time for a recording other than the one it
   was started for. *)
C39_OneTimer ==
    /\ Cardinality(timers) <= 1
    /\ reported.timer = reported.recording

(* What holds: a timer that fires while nothing is recording clears
   itself, and no timer outlives the recordings by more than that. *)
C39_ClearsWhenIdle ==
    [][(lastOp' = "timer" /\ ~ isRecording) =>
          Cardinality(timers') = Cardinality(timers) - 1]_vars

C39_TwoTimersWitness ==
    /\ Cardinality(timers) = 2
    /\ isRecording
    /\ mediaRecorder = 2
    /\ reported = [timer |-> 1, recording |-> 2]

----------------------------------------------------------------------------
(* C40: hasActiveClones() is true exactly when the collection is not
   empty, whatever spawnClones (count >= 1), dismissClones,
   updateAnimations, render and clear calls came before. *)
C40_ActiveIffNonEmpty ==
    /\ hasActiveClones <=> (Len(clones) > 0)
    /\ isActive <=> (clones # <<>>)

C40_Witness ==
    /\ lastOp = "tick"
    /\ cmd.kind = "dismiss"
    /\ clones = <<>>
    /\ ~ hasActiveClones

====
